---- MODULE Spec2Model ----
(***************************************************************************)
(* A model of the client side of libnetconf2: the SSH client connectors   *)
(* of src/src/session_client_ssh.c (nc_connect_ssh, nc_connect_libssh,    *)
(* nc_connect_ssh_channel), the session structure of src/src/session_p.h  *)
(* and the parts of the library they call (nc_handshake,                  *)
(* nc_ctx_check_and_fill, nc_session_free, the message I/O).              *)
(***************************************************************************)
EXTENDS Integers, Sequences, FiniteSets, TLC

(***************************************************************************)
(* Bounds of the model.                                                    *)
(***************************************************************************)
\* number of struct nc_session objects that are ever allocated
MaxSessions == 3

\* the application's threads
Threads == {"t1", "t2"}
NoThread == "none"

SessIds == 1..MaxSessions

\* the elements of a list
Range(q) == {q[i] : i \in DOMAIN q}
\* the NULL pointer (struct nc_session *, ssh_session)
NULL == 0

VARIABLES
    sess,          \* the struct nc_session objects, by address
    connReleased,  \* per SSH connection: how often ssh_free() and the free of its ti_lock ran
    lockHolder,    \* per SSH connection: the thread that holds its ti_lock
    pc,            \* per thread: its position in the API call it executes
    cur,           \* per thread: the session it builds (session / new_session) or uses
    par,           \* per thread: the parent session of nc_connect_ssh_channel
    ptr            \* per thread: the local ptr of nc_connect_ssh_channel

VARIABLE
    hello          \* one hello exchange: the two capability lists and what came of it

VARIABLES
    msgid,         \* session->msgid of one running client session
    issued,        \* the message-ids its RPCs were sent with, in the order of the sends
    sent,          \* how many messages the server has sent to it
    wire,          \* the server's messages the client has not read yet
    replies,       \* session->replies
    notifs,        \* session->notifs
    got,           \* what the receive calls returned, in the order of the calls
    discarded      \* the messages a receive call dropped

VARIABLES
    payload,       \* a message body, as bytes
    npieces,       \* the number of pieces it was put together from
    framing,       \* the framing it is sent with: version and chunk size
    encoded,       \* the bytes on the wire
    decoded        \* what the reader made of them

VARIABLE
    hk             \* one host key check of connect_ssh_session_netconf: inputs and outcome

VARIABLES
    ssh_opts,      \* the options of the normal SSH client sessions
    ssh_ch_opts,   \* the options of the Call Home SSH client sessions
    nset,          \* how many preferences the application has set
    au             \* one authentication of connect_ssh_session_netconf

VARIABLES
    cfg,           \* the endpoints of the server, per transport kind, by name
    ser,           \* what the operations done so far give when run one after the other
    cfgLock,       \* per transport kind: the thread that holds its configuration lock
    cpc,           \* per configuration thread: its operation, its copy, where it is
    taken,         \* the operations that were issued
    failed,        \* the operations that did not return 0
    acc            \* the thread in nc_accept

VARIABLE
    ps             \* the poll sets of the server: the messages that arrived, who reads them

VARIABLE
    sid            \* the session-id counter of the server and the sessions nc_accept makes

VARIABLE
    ctn            \* the cert-to-name table of a TLS endpoint, a client certificate, what came of it

VARIABLE
    rd             \* one call of nc_read_msg_poll: its timeout, the wire, the time, what it returned

VARIABLE
    co             \* one call of nc_connect_ssh: its arguments, what it connected to, the session it made

VARIABLE
    ky             \* the key pairs of the two client option blocks, the heap they are on, the last call

VARIABLE
    est            \* one call of connect_ssh_session_netconf: how far it is, what the server has granted

VARIABLE
    rg             \* the sessions of a single-threaded client that opens channels one after the other

connVars == <<sess, connReleased, lockHolder, pc, cur, par, ptr>>
msgVars == <<msgid, issued, sent, wire, replies, notifs, got, discarded>>
frameVars == <<payload, npieces, framing, encoded, decoded>>
authVars == <<ssh_opts, ssh_ch_opts, nset, au>>
cfgVars == <<cfg, ser, cfgLock, cpc, taken, failed, acc>>

\* what the steps of one part of the library leave alone
otherThanConn == <<hello, msgVars, frameVars, hk, authVars, cfgVars, ps, sid, ctn, rd, co, ky, est, rg>>
otherThanHello == <<connVars, msgVars, frameVars, hk, authVars, cfgVars, ps, sid, ctn, rd, co, ky, est, rg>>
otherThanMsg == <<connVars, hello, frameVars, hk, authVars, cfgVars, ps, sid, ctn, rd, co, ky, est, rg>>
otherThanFrame == <<connVars, hello, msgVars, hk, authVars, cfgVars, ps, sid, ctn, rd, co, ky, est, rg>>
otherThanHostkey == <<connVars, hello, msgVars, frameVars, authVars, cfgVars, ps, sid, ctn, rd, co, ky, est, rg>>
otherThanAuth == <<connVars, hello, msgVars, frameVars, hk, cfgVars, ps, sid, ctn, rd, co, ky, est, rg>>
otherThanCfg == <<connVars, hello, msgVars, frameVars, hk, authVars, ps, sid, ctn, rd, co, ky, est, rg>>
otherThanPoll == <<connVars, hello, msgVars, frameVars, hk, authVars, cfgVars, sid, ctn, rd, co, ky, est, rg>>
otherThanSid == <<connVars, hello, msgVars, frameVars, hk, authVars, cfgVars, ps, ctn, rd, co, ky, est, rg>>
otherThanCtn == <<connVars, hello, msgVars, frameVars, hk, authVars, cfgVars, ps, sid, rd, co, ky, est, rg>>
otherThanRead == <<connVars, hello, msgVars, frameVars, hk, authVars, cfgVars, ps, sid, ctn, co, ky, est, rg>>
otherThanConnect == <<connVars, hello, msgVars, frameVars, hk, authVars, cfgVars, ps, sid, ctn, rd, ky, est, rg>>
otherThanKeys == <<connVars, hello, msgVars, frameVars, hk, authVars, cfgVars, ps, sid, ctn, rd, co, est, rg>>
otherThanEstablish == <<connVars, hello, msgVars, frameVars, hk, authVars, cfgVars, ps, sid, ctn, rd, co, ky, rg>>
otherThanRing == <<connVars, hello, msgVars, frameVars, hk, authVars, cfgVars, ps, sid, ctn, rd, co, ky, est>>

(***************************************************************************)
(* NC_STATUS (session.h) and the order the session life cycle gives it.   *)
(***************************************************************************)
NC_STATUS == {"STARTING", "CLOSING", "INVALID", "RUNNING"}

\* the place of a status in the life of a session: starting, running, closing, invalid
StatusRank(st) ==
    CASE st = "STARTING" -> 0
      [] st = "RUNNING" -> 1
      [] st = "CLOSING" -> 2
      [] st = "INVALID" -> 3

NC_VERSION == {"V10", "V11"}

\* the base capabilities of a hello message
BaseCaps == {"base10", "base11"}

\* a calloc that left 1 in msgid: FirstMsgidIsZero must not hold of it
CallocMsgidOne ==
    [mem |-> "alive", status |-> "STARTING", term_reason |-> "NONE", side |-> "CLIENT",
     version |-> "V10", ti_type |-> "NONE", ssh |-> 0, channel |-> "NULL",
     next |-> 0, ctx |-> "NULL", cpblts |-> <<>>, msgid |-> 1]

\* what calloc(1, sizeof *session) leaves: every field zero
CallocSession ==
    [mem |-> "alive", status |-> "STARTING", term_reason |-> "NONE", side |-> "CLIENT",
     version |-> "V10", ti_type |-> "NONE", ssh |-> NULL, channel |-> "NULL",
     next |-> NULL, ctx |-> "NULL", cpblts |-> <<>>, msgid |-> 0]

\* memory that was never allocated
NoSession == [CallocSession EXCEPT !.mem = "none"]

(***************************************************************************)
(* Helpers on the heap of sessions.                                        *)
(***************************************************************************)
\* the address the next calloc returns: objects are never reused
FreshIds == {s \in SessIds : sess[s].mem = "none"}
FreshId == CHOOSE s \in FreshIds : \A o \in FreshIds : s <= o

\* pcs at which cur[t] is a session its connector has not returned yet
BuildPcs == {"ssh_hs", "ssh_fill", "lib_hs", "lib_fill", "ch_open", "ch_hs", "ch_fill",
             "ring_test", "ring_a1", "ring_a2", "ring_b0", "ring_b1", "ring_b2"}

UnderConstruction(s) == \E t \in Threads : pc[t] \in BuildPcs /\ cur[t] = s

\* a session some connector has returned to the application and nobody freed
Returned(s) == sess[s].mem = "alive" /\ ~UnderConstruction(s)

\* the application uses session s in a call that has not returned
InUse(s) == \E t \in Threads : pc[t] # "idle" /\ (cur[t] = s \/ par[t] = s)

(***************************************************************************)
(* The transport lock ti_lock.  nc_connect_ssh and nc_connect_libssh make *)
(* one with the SSH session; nc_connect_ssh_channel shares the parent's,  *)
(* so a lock is identified by the SSH connection it guards.                *)
(* Once the lock was destroyed and freed, pthread_mutex_lock on it is     *)
(* undefined: it may return, whoever holds the lock.                       *)
(***************************************************************************)
CanLock(c) == lockHolder[c] = NoThread \/ connReleased[c] > 0

(***************************************************************************)
(* nc_handshake (declared in session_p.h; its body is not part of these   *)
(* sources): the hello exchange and the choice of the protocol version    *)
(* from the two capability lists.                                          *)
(***************************************************************************)
\* a negotiation content with one side speaking a version: VersionNegotiation must
\* not hold of it
NegotiateVersionEither(client, server) ==
    IF "base11" \in client \/ "base11" \in server THEN "V11"
    ELSE IF "base10" \in client \/ "base10" \in server THEN "V10"
    ELSE "FAIL"

\* the version both sides can speak, "FAIL" when there is none
NegotiateVersion(client, server) ==
    IF "base11" \in client /\ "base11" \in server THEN "V11"
    ELSE IF "base10" \in client /\ "base10" \in server THEN "V10"
    ELSE "FAIL"

\* the hello of this library's client announces both base capabilities
ClientHelloCaps == {"base10", "base11"}

\* the hellos a server answers with: base:1.0 always, base:1.1 when it supports it
ServerHellos == {{"base10"}, {"base10", "base11"}}

(***************************************************************************)
(* nc_session_free (declared in session.h; its body is not part of these  *)
(* sources).  A session with a NULL next pointer is the only one on its   *)
(* SSH session and takes the SSH session and the lock with it; any other  *)
(* one is unlinked from the ring of its siblings.                          *)
(***************************************************************************)
\* what is left of a session that went through nc_session_free: its memory was given
\* back, its fields are no longer state of the program
FreedSession == [NoSession EXCEPT !.mem = "freed"]

\* the member of the ring whose next is s, found by walking the ring from `at`
RECURSIVE RingPred(_, _, _, _)
RingPred(S, s, at, fuel) ==
    IF at = NULL \/ fuel = 0 THEN NULL
    ELSE IF S[at].next = s THEN at
    ELSE RingPred(S, s, S[at].next, fuel - 1)

\* s can be freed: it has no sibling, or the walk along the ring finds its predecessor
CanFree(S, s) ==
    S[s].next = NULL \/ RingPred(S, s, S[s].next, MaxSessions) # NULL

\* the free of s releases the SSH session and the lock
ReleasesConn(S, s) == S[s].next = NULL /\ S[s].ssh # NULL

\* the heap after nc_session_free(s)
FreeSession(S, s) ==
    LET n == S[s].next
        gone == [S EXCEPT ![s] = FreedSession]
    IN  IF n = NULL THEN gone
        ELSE LET p == RingPred(S, s, n, MaxSessions)
             IN  [gone EXCEPT ![p].next = IF n = p THEN NULL ELSE n]

\* connReleased after nc_session_free(s)
ReleaseCount(S, s) ==
    IF ReleasesConn(S, s)
    THEN [connReleased EXCEPT ![S[s].ssh] = @ + 1]
    ELSE connReleased

(***************************************************************************)
(* Steps shared by the three connectors.                                   *)
(***************************************************************************)
Idle(t) == pc[t] = "idle"

\* A call is run by the first thread that is free: the threads are
\* interchangeable, their locals die with the call.
CanStart(t) == Idle(t) /\ \A o \in Threads : (o # t /\ Idle(o)) => t = "t1"

\* the thread's call returns: its locals are dead
Return(t) ==
    /\ pc' = [pc EXCEPT ![t] = "idle"]
    /\ cur' = [cur EXCEPT ![t] = NULL]
    /\ par' = [par EXCEPT ![t] = NULL]
    /\ ptr' = [ptr EXCEPT ![t] = NULL]

Goto(t, label) ==
    /\ pc' = [pc EXCEPT ![t] = label]
    /\ UNCHANGED <<cur, par, ptr>>

\* a fail label that returns NULL without nc_session_free: ConnectOutcomes must not
\* hold of it
GotoFailLeak(t, r) ==
    /\ sess' = [sess EXCEPT ![cur[t]] = r]
    /\ UNCHANGED connReleased
    /\ Return(t)

\* fail: nc_session_free(session); return NULL;   with the session as r
GotoFail(t, r) ==
    LET S == [sess EXCEPT ![cur[t]] = r]
    IN  /\ sess' = FreeSession(S, cur[t])
        /\ connReleased' = ReleaseCount(S, cur[t])
        /\ Return(t)

\* session->status = NC_STATUS_STARTING; session->side = NC_CLIENT; and the transport
\* fields of a session on SSH session c
NewSession(c) ==
    [CallocSession EXCEPT !.status = "STARTING", !.side = "CLIENT",
                          !.ti_type = "LIBSSH", !.ssh = c]

\* connect_ssh_session_netconf returned 0: the channel is open and runs the
\* netconf subsystem
AfterConnect(r) == [r EXCEPT !.channel = "NETCONF"]

\* a handshake that left a termination reason behind: StatusMonotonic must not hold
\* of it
AfterHandshakeDropped(r, sc) ==
    [r EXCEPT !.ctx = "SET", !.cpblts = <<sc>>, !.status = "RUNNING",
              !.term_reason = "DROPPED"]

\* the session after nc_handshake returned 0 with the server's capabilities sc:
\* the context is assigned before the handshake, the status set right after it
AfterHandshake(r, sc) ==
    [r EXCEPT !.ctx = "SET", !.cpblts = <<sc>>,
              !.version = NegotiateVersion(ClientHelloCaps, sc),
              !.status = "RUNNING"]

\* the session after nc_ctx_check_and_fill returned 0
AfterFill(r) == [r EXCEPT !.ctx = "FILLED"]

\* nc_handshake and what follows it in all three connectors, with a server that
\* answers with one of `hellos`: on success the status is set and the connector goes
\* on at `label`
Handshake(t, label, hellos) ==
    \/ \E sc \in hellos :
          /\ NegotiateVersion(ClientHelloCaps, sc) # "FAIL"
          /\ sess' = [sess EXCEPT ![cur[t]] = AfterHandshake(@, sc)]
          /\ Goto(t, label)
          /\ UNCHANGED connReleased
    \/ GotoFail(t, sess[cur[t]])

\* a connector that does not look at what nc_ctx_check_and_fill returned:
\* ReturnedSessionIsFilled must not hold of it
FillUnchecked(t, label) ==
    /\ \/ sess' = [sess EXCEPT ![cur[t]] = AfterFill(@)]
       \/ UNCHANGED sess
    /\ IF label = "idle" THEN Return(t) ELSE Goto(t, label)
    /\ UNCHANGED connReleased

\* nc_ctx_check_and_fill and what follows it
Fill(t, label) ==
    \/ /\ sess' = [sess EXCEPT ![cur[t]] = AfterFill(@)]
       /\ IF label = "idle" THEN Return(t) ELSE Goto(t, label)
       /\ UNCHANGED connReleased
    \/ GotoFail(t, sess[cur[t]])

(***************************************************************************)
(* nc_connect_ssh                                                          *)
(***************************************************************************)
\* The session structure, its lock and its SSH session are made; then
\* nc_sock_connect and connect_ssh_session_netconf run on them.
SshStart(t) ==
    /\ CanStart(t)
    /\ FreshIds # {}
    /\ \/ /\ sess' = [sess EXCEPT ![FreshId] = AfterConnect(NewSession(FreshId))]
          /\ pc' = [pc EXCEPT ![t] = "ssh_hs"]
          /\ cur' = [cur EXCEPT ![t] = FreshId]
          /\ UNCHANGED <<connReleased, par, ptr>>
       \/ LET S == [sess EXCEPT ![FreshId] = NewSession(FreshId)]
          IN  /\ sess' = FreeSession(S, FreshId)
              /\ connReleased' = ReleaseCount(S, FreshId)
              /\ UNCHANGED <<pc, cur, par, ptr>>
    /\ UNCHANGED lockHolder
    /\ UNCHANGED otherThanConn

\* nc_handshake, then session->status = NC_STATUS_RUNNING
SshHandshake(t) ==
    /\ pc[t] = "ssh_hs"
    /\ Handshake(t, "ssh_fill", ServerHellos)
    /\ UNCHANGED lockHolder
    /\ UNCHANGED otherThanConn

\* nc_ctx_check_and_fill, then the session is returned
SshFill(t) ==
    /\ pc[t] = "ssh_fill"
    /\ Fill(t, "idle")
    /\ UNCHANGED lockHolder
    /\ UNCHANGED otherThanConn

(***************************************************************************)
(* nc_connect_libssh                                                       *)
(***************************************************************************)
\* The session made for an SSH session c for which ssh_is_connected() answers
\* `connected`, when no step fails: only an SSH session that is not connected goes
\* through connect_ssh_session_netconf, the one place that opens a channel.
LibSession(c, connected) ==
    IF connected THEN NewSession(c) ELSE AfterConnect(NewSession(c))

LibStart(t) ==
    /\ CanStart(t)
    /\ FreshIds # {}
    /\ \/ /\ \E connected \in BOOLEAN :
                sess' = [sess EXCEPT ![FreshId] = LibSession(FreshId, connected)]
          /\ pc' = [pc EXCEPT ![t] = "lib_hs"]
          /\ cur' = [cur EXCEPT ![t] = FreshId]
          /\ UNCHANGED <<connReleased, par, ptr>>
       \/ LET S == [sess EXCEPT ![FreshId] = NewSession(FreshId)]
          IN  /\ sess' = FreeSession(S, FreshId)
              /\ connReleased' = ReleaseCount(S, FreshId)
              /\ UNCHANGED <<pc, cur, par, ptr>>
    /\ UNCHANGED lockHolder
    /\ UNCHANGED otherThanConn

LibHandshake(t) ==
    /\ pc[t] = "lib_hs"
    /\ Handshake(t, "lib_fill", ServerHellos)
    /\ UNCHANGED lockHolder
    /\ UNCHANGED otherThanConn

LibFill(t) ==
    /\ pc[t] = "lib_fill"
    /\ Fill(t, "idle")
    /\ UNCHANGED lockHolder
    /\ UNCHANGED otherThanConn

\* the sessions after a connector was called with a NULL required argument:
\* ERRARG; return NULL; before anything is allocated
AfterArgError(S) == S

\* nc_connect_libssh(NULL, ctx): if (!ssh_session) { ERRARG; return NULL; }
LibNullArg(t) ==
    /\ CanStart(t)
    /\ sess' = AfterArgError(sess)
    /\ UNCHANGED <<connReleased, lockHolder, pc, cur, par, ptr>>
    /\ UNCHANGED otherThanConn

(***************************************************************************)
(* nc_connect_ssh_channel                                                  *)
(***************************************************************************)
\* nc_connect_ssh_channel(NULL, ctx): if (!session) { ERRARG; return NULL; }
ChNullArg(t) ==
    /\ CanStart(t)
    /\ sess' = AfterArgError(sess)
    /\ UNCHANGED <<connReleased, lockHolder, pc, cur, par, ptr>>
    /\ UNCHANGED otherThanConn

\* The new session shares the parent's lock and SSH session, and the lock is
\* taken: pthread_mutex_lock(new_session->ti_lock).
ChStart(t) ==
    /\ CanStart(t)
    /\ FreshIds # {}
    /\ \E p \in SessIds :
          /\ Returned(p)
          /\ sess[p].status = "RUNNING"
          /\ CanLock(sess[p].ssh)
          /\ sess' = [sess EXCEPT ![FreshId] = NewSession(sess[p].ssh)]
          /\ lockHolder' = [lockHolder EXCEPT ![sess[p].ssh] = t]
          /\ par' = [par EXCEPT ![t] = p]
    /\ pc' = [pc EXCEPT ![t] = "ch_open"]
    /\ cur' = [cur EXCEPT ![t] = FreshId]
    /\ UNCHANGED <<connReleased, ptr>>
    /\ UNCHANGED otherThanConn

\* ssh_channel_new, ssh_channel_open_session and ssh_channel_request_subsystem;
\* a failure of either leaves through fail, with the lock held
ChOpen(t) ==
    /\ pc[t] = "ch_open"
    /\ \/ /\ sess' = [sess EXCEPT ![cur[t]].channel = "NETCONF"]
          /\ Goto(t, "ch_hs")
          /\ UNCHANGED connReleased
       \/ GotoFail(t, [sess[cur[t]] EXCEPT !.channel = "NEW"])
       \/ GotoFail(t, [sess[cur[t]] EXCEPT !.channel = "OPEN"])
    /\ UNCHANGED lockHolder
    /\ UNCHANGED otherThanConn

\* the lock after pthread_mutex_unlock(new_session->ti_lock) on connection c
Unlock(c) == [lockHolder EXCEPT ![c] = NoThread]

\* what the successful handshake of nc_connect_ssh_channel does to the lock of
\* connection c: pthread_mutex_unlock, right after the status is set
LockAfterChHandshake(c) == Unlock(c)

\* nc_handshake, with the server the parent session talks to; on success the status
\* is set and the lock released
ChHandshake(t) ==
    /\ pc[t] = "ch_hs"
    /\ Handshake(t, "ch_fill", Range(sess[par[t]].cpblts))
    /\ lockHolder' = IF pc'[t] = "ch_fill"
                     THEN LockAfterChHandshake(sess[cur[t]].ssh)
                     ELSE lockHolder
    /\ UNCHANGED otherThanConn

\* nc_ctx_check_and_fill: it talks to the server, under the lock such I/O takes
ChFill(t) ==
    /\ pc[t] = "ch_fill"
    /\ CanLock(sess[cur[t]].ssh)
    /\ Fill(t, "ring_test")
    /\ UNCHANGED lockHolder
    /\ UNCHANGED otherThanConn

\* append to the session ring list: if (!session->ti.libssh.next)
RingTest(t) ==
    /\ pc[t] = "ring_test"
    /\ Goto(t, IF sess[par[t]].next = NULL THEN "ring_a1" ELSE "ring_b0")
    /\ UNCHANGED <<sess, connReleased, lockHolder>>
    /\ UNCHANGED otherThanConn

\* session->ti.libssh.next = new_session;
RingA1(t) ==
    /\ pc[t] = "ring_a1"
    /\ sess' = [sess EXCEPT ![par[t]].next = cur[t]]
    /\ Goto(t, "ring_a2")
    /\ UNCHANGED <<connReleased, lockHolder>>
    /\ UNCHANGED otherThanConn

\* new_session->ti.libssh.next = session; return new_session;
RingA2(t) ==
    /\ pc[t] = "ring_a2"
    /\ sess' = [sess EXCEPT ![cur[t]].next = par[t]]
    /\ Return(t)
    /\ UNCHANGED <<connReleased, lockHolder>>
    /\ UNCHANGED otherThanConn

\* ptr = session->ti.libssh.next;
RingB0(t) ==
    /\ pc[t] = "ring_b0"
    /\ pc' = [pc EXCEPT ![t] = "ring_b1"]
    /\ ptr' = [ptr EXCEPT ![t] = sess[par[t]].next]
    /\ UNCHANGED <<sess, connReleased, lockHolder, cur, par>>
    /\ UNCHANGED otherThanConn

\* session->ti.libssh.next = new_session;
RingB1(t) ==
    /\ pc[t] = "ring_b1"
    /\ sess' = [sess EXCEPT ![par[t]].next = cur[t]]
    /\ Goto(t, "ring_b2")
    /\ UNCHANGED <<connReleased, lockHolder>>
    /\ UNCHANGED otherThanConn

\* new_session->ti.libssh.next = ptr; return new_session;
RingB2(t) ==
    /\ pc[t] = "ring_b2"
    /\ sess' = [sess EXCEPT ![cur[t]].next = ptr[t]]
    /\ Return(t)
    /\ UNCHANGED <<connReleased, lockHolder>>
    /\ UNCHANGED otherThanConn

(***************************************************************************)
(* The application's use of a returned session: message I/O (nc_send_rpc, *)
(* nc_recv_reply, ...: all reads and writes of a transport are done under *)
(* its lock) and nc_session_free.  These bodies are not part of the       *)
(* sources.                                                                *)
(***************************************************************************)
\* a send or receive on s takes the lock
IoBegin(t) ==
    /\ CanStart(t)
    /\ \E s \in SessIds :
          /\ Returned(s)
          /\ sess[s].status = "RUNNING"
          /\ CanLock(sess[s].ssh)
          /\ lockHolder' = [lockHolder EXCEPT ![sess[s].ssh] = t]
          /\ cur' = [cur EXCEPT ![t] = s]
    /\ pc' = [pc EXCEPT ![t] = "io"]
    /\ UNCHANGED <<sess, connReleased, par, ptr>>
    /\ UNCHANGED otherThanConn

\* the message went through, or the transport failed: the session is invalid
IoEnd(t) ==
    /\ pc[t] = "io"
    /\ \/ UNCHANGED sess
       \/ sess' = [sess EXCEPT ![cur[t]].status = "INVALID",
                                ![cur[t]].term_reason = "DROPPED"]
    /\ lockHolder' = Unlock(sess[cur[t]].ssh)
    /\ Return(t)
    /\ UNCHANGED connReleased
    /\ UNCHANGED otherThanConn

\* nc_session_free(s) by the application, on a session no call of it is using
Free(t) ==
    /\ CanStart(t)
    /\ \E s \in SessIds :
          /\ Returned(s)
          /\ ~InUse(s)
          /\ CanLock(sess[s].ssh)
          /\ CanFree(sess, s)
          /\ sess' = FreeSession(sess, s)
          /\ connReleased' = ReleaseCount(sess, s)
    /\ UNCHANGED <<lockHolder, pc, cur, par, ptr>>
    /\ UNCHANGED otherThanConn

(***************************************************************************)
(* The hello exchange of nc_handshake on its own, for any two capability  *)
(* lists.                                                                  *)
(***************************************************************************)
\* capabilities a hello can carry: the two base ones and two feature ones
Caps == {"base10", "base11", "candidate", "startup"}

NoHello ==
    [phase |-> "none", client |-> {}, server |-> {},
     version |-> CallocSession.version, status |-> CallocSession.status]

\* both sides have sent their hello
HelloExchange(c, s) ==
    /\ hello.phase = "none"
    /\ hello' = [hello EXCEPT !.phase = "sent", !.client = c, !.server = s]
    /\ UNCHANGED otherThanHello

\* the version is negotiated; without a common one the handshake fails and the
\* connector frees the session, with one it sets the status
HelloNegotiate ==
    /\ hello.phase = "sent"
    /\ LET v == NegotiateVersion(hello.client, hello.server)
       IN  hello' = IF v = "FAIL"
                    THEN [hello EXCEPT !.phase = "failed"]
                    ELSE [hello EXCEPT !.phase = "done", !.version = v,
                                       !.status = "RUNNING"]
    /\ UNCHANGED otherThanHello

(***************************************************************************)
(* Messages of one running client session: the sending of an RPC and the  *)
(* receiving of replies and notifications (nc_send_rpc is called by       *)
(* tests/test_io.c; the bodies of the three are not part of these         *)
(* sources), and the server on the other end.                              *)
(***************************************************************************)
\* RPCs the client sends
MaxSends == 2
\* messages the server sends
MaxMsgs == 4

\* what a receive call waits for: the reply to a message-id, or a notification
WantNotif == -1
\* no message: the receive call timed out
NoMsg == [kind |-> "none", id |-> -1, ser |-> 0]

\* message-ids a reply of the server can carry: the ones the client uses and one more
ReplyIds == 0..MaxSends

\* the message-id of the next RPC, and the counter after it: a post-increment
RpcId(counter) == counter
NextMsgid(counter) == counter + 1

\* nc_send_rpc
SendRpc ==
    /\ Len(issued) < MaxSends
    /\ issued' = Append(issued, RpcId(msgid))
    /\ msgid' = NextMsgid(msgid)
    /\ UNCHANGED <<sent, wire, replies, notifs, got, discarded>>
    /\ UNCHANGED otherThanMsg

\* the server sends an rpc-reply
ServerReply(i) ==
    /\ sent < MaxMsgs
    /\ sent' = sent + 1
    /\ wire' = Append(wire, [kind |-> "reply", id |-> i, ser |-> sent + 1])
    /\ UNCHANGED <<msgid, issued, replies, notifs, got, discarded>>
    /\ UNCHANGED otherThanMsg

\* the server sends a notification
ServerNotif ==
    /\ sent < MaxMsgs
    /\ sent' = sent + 1
    /\ wire' = Append(wire, [kind |-> "notif", id |-> -1, ser |-> sent + 1])
    /\ UNCHANGED <<msgid, issued, replies, notifs, got, discarded>>
    /\ UNCHANGED otherThanMsg

\* a queue that takes a message at its front: DeferredQueues must not hold of it
Push(q, m) == <<m>> \o q

\* a message is put on a queue of struct nc_msg_cont: at its end
Enqueue(q, m) == Append(q, m)

\* the queue without its k-th container
Unlink(q, k) == SubSeq(q, 1, k - 1) \o SubSeq(q, k + 1, Len(q))

\* a receive that takes any reply for its own: ReplyCorrelation must not hold of it
MatchesAnyReply(m, want) == m.kind = "reply"

\* the reply m is the one a call waiting for `want` is after
Matches(m, want) == m.kind = "reply" /\ m.id = want

\* Messages are read off the wire until the wanted one came or nothing is left to read:
\* a notification read while a reply is wanted and a reply read while something else
\* is wanted are put on their queues, a reply to no RPC of this session is dropped.
RECURSIVE GetMsg(_, _, _)
GetMsg(want, known, st) ==
    IF st.wire = <<>> THEN st
    ELSE LET m == Head(st.wire)
             rest == [st EXCEPT !.wire = Tail(@)]
         IN  IF m.kind = "notif"
             THEN IF want = WantNotif
                  THEN [rest EXCEPT !.result = m]
                  ELSE GetMsg(want, known, [rest EXCEPT !.notifs = Enqueue(@, m)])
             ELSE IF m.id \notin known
                  THEN GetMsg(want, known, [rest EXCEPT !.discarded = @ \cup {m}])
                  ELSE IF Matches(m, want)
                       THEN [rest EXCEPT !.result = m]
                       ELSE GetMsg(want, known, [rest EXCEPT !.replies = Enqueue(@, m)])

\* the session as GetMsg takes it
MsgState ==
    [wire |-> wire, replies |-> replies, notifs |-> notifs, discarded |-> discarded,
     result |-> NoMsg]

\* the receive call for `want` returns what st says
Receive(want, st) ==
    /\ wire' = st.wire
    /\ replies' = st.replies
    /\ notifs' = st.notifs
    /\ discarded' = st.discarded
    /\ got' = IF st.result = NoMsg THEN got
              ELSE Append(got, [want |-> want, msg |-> st.result])
    /\ UNCHANGED <<msgid, issued, sent>>

\* the receive of the reply to the RPC sent with message-id i: the queue of replies first
RecvReply(i) ==
    /\ i \in Range(issued)
    /\ LET hits == {k \in DOMAIN replies : Matches(replies[k], i)}
       IN  IF hits # {}
           THEN LET k == CHOOSE h \in hits : \A o \in hits : h <= o
                IN  Receive(i, [MsgState EXCEPT !.replies = Unlink(replies, k),
                                                !.result = replies[k]])
           ELSE Receive(i, GetMsg(i, Range(issued), MsgState))
    /\ UNCHANGED otherThanMsg

\* the receive of a notification: the queue of notifications first
RecvNotif ==
    /\ IF notifs # <<>>
       THEN Receive(WantNotif, [MsgState EXCEPT !.notifs = Tail(notifs),
                                                !.result = Head(notifs)])
       ELSE Receive(WantNotif, GetMsg(WantNotif, Range(issued), MsgState))
    /\ UNCHANGED otherThanMsg

(***************************************************************************)
(* The two framings of a message (the reader and the writer are declared  *)
(* in session_p.h: nc_read_msg, nc_write_msg; their bodies are not part   *)
(* of these sources).  Bytes are one-character strings.                    *)
(***************************************************************************)
\* pieces a message body is put together from
MaxPieces == 3

\* NC_VERSION_10_ENDTAG "]]>]]>"
NC_VERSION_10_ENDTAG == <<"]", "]", ">", "]", "]", ">">>
\* a marker length that is one short: FramingRoundTrip must not hold of it
EndtagLenShort == Len(NC_VERSION_10_ENDTAG) - 1

\* NC_VERSION_10_ENDTAG_LEN
NC_VERSION_10_ENDTAG_LEN == 6

\* the chunk sizes of the writer
ChunkSizes == {1, 16, 4096}

\* ten bytes of text
Filler == <<"x", "x", "x", "x", "x", "x", "x", "x", "x", "x">>

Pieces ==
    {<<"]", "]", ">">>, <<"]">>, <<">">>, <<"a">>, <<"\n", "#">>, <<"#", "\n">>,
     <<"1">>, Filler}

Framings ==
    {[version |-> "V10", chunk |-> 0]} \cup
    {[version |-> "V11", chunk |-> k] : k \in ChunkSizes}

Digits == <<"0", "1", "2", "3", "4", "5", "6", "7", "8", "9">>

\* the decimal digits of n, n > 0
RECURSIVE Decimal(_)
Decimal(n) ==
    IF n < 10 THEN <<Digits[n + 1]>>
    ELSE Decimal(n \div 10) \o <<Digits[(n % 10) + 1]>>

IsDigit(b) == \E d \in DOMAIN Digits : Digits[d] = b

DigitValue(b) == (CHOOSE d \in DOMAIN Digits : Digits[d] = b) - 1

\* the number a sequence of digits stands for
RECURSIVE Number(_)
Number(ds) ==
    IF ds = <<>> THEN 0
    ELSE 10 * Number(SubSeq(ds, 1, Len(ds) - 1)) + DigitValue(ds[Len(ds)])

\* the digits S starts with
RECURSIVE LeadingDigits(_)
LeadingDigits(S) ==
    IF S = <<>> \/ ~IsDigit(Head(S)) THEN <<>>
    ELSE <<Head(S)>> \o LeadingDigits(Tail(S))

Drop(S, n) == SubSeq(S, n + 1, Len(S))
Take(S, n) == SubSeq(S, 1, n)

StartsWith(S, pre) == Len(S) >= Len(pre) /\ Take(S, Len(pre)) = pre
EndsWith(S, suf) == Len(S) >= Len(suf) /\ Drop(S, Len(S) - Len(suf)) = suf
Contains(S, sub) == \E i \in 0..Len(S) : StartsWith(Drop(S, i), sub)

\* v1.0: the body, followed immediately by the end-of-message marker
EncodeV10(P) == P \o NC_VERSION_10_ENDTAG

\* v1.0: the reader takes bytes until the ones it has end in the marker, and yields
\* them without the marker
RECURSIVE ReadUntilEndtag(_, _)
ReadUntilEndtag(S, have) ==
    IF EndsWith(have, NC_VERSION_10_ENDTAG)
    THEN [ok |-> TRUE, data |-> Take(have, Len(have) - NC_VERSION_10_ENDTAG_LEN)]
    ELSE IF S = <<>> THEN [ok |-> FALSE, data |-> <<>>]
    ELSE ReadUntilEndtag(Tail(S), Append(have, Head(S)))

DecodeV10(S) == ReadUntilEndtag(S, <<>>)

\* a chunk of n bytes starts with "\n#<n>\n"
ChunkHeader(n) == <<"\n", "#">> \o Decimal(n) \o <<"\n">>
\* the end of the chunks: "\n##\n"
ChunkEnd == <<"\n", "#", "#", "\n">>

Min(a, b) == IF a <= b THEN a ELSE b

\* v1.1: the body cut into chunks of k bytes, the last one shorter
RECURSIVE Chunks(_, _)
Chunks(P, k) ==
    IF P = <<>> THEN <<>>
    ELSE LET n == Min(k, Len(P))
         IN  ChunkHeader(n) \o Take(P, n) \o Chunks(Drop(P, n), k)

EncodeV11(P, k) == Chunks(P, k) \o ChunkEnd

Malformed == [ok |-> FALSE, data |-> <<>>]

\* v1.1: one or more chunks, then the end.  A chunk length has no sign, is not 0 and
\* is followed by that many bytes; lengths of more than nine digits do not occur here.
RECURSIVE ReadChunks(_, _, _)
ReadChunks(S, have, nchunks) ==
    IF ~StartsWith(S, <<"\n", "#">>) THEN Malformed
    ELSE IF StartsWith(S, ChunkEnd)
         THEN IF nchunks = 0 THEN Malformed ELSE [ok |-> TRUE, data |-> have]
         ELSE LET ds == LeadingDigits(Drop(S, 2))
                  body == Drop(S, 2 + Len(ds) + 1)
              IN  IF \/ ds = <<>>
                     \/ Len(ds) > 9
                     \/ Number(ds) = 0
                     \/ ~StartsWith(Drop(S, 2 + Len(ds)), <<"\n">>)
                     \/ Len(body) < Number(ds)
                  THEN Malformed
                  ELSE ReadChunks(Drop(body, Number(ds)),
                                  have \o Take(body, Number(ds)), nchunks + 1)

DecodeV11(S) == ReadChunks(S, <<>>, 0)

Encode(f, P) == IF f.version = "V10" THEN EncodeV10(P) ELSE EncodeV11(P, f.chunk)
Decode(f, S) == IF f.version = "V10" THEN DecodeV10(S) ELSE DecodeV11(S)

NoFraming == [version |-> "NONE", chunk |-> 0]
NotDecoded == [ok |-> FALSE, data |-> <<"?">>]

\* the application builds the body of a message
FrameAppend(piece) ==
    /\ framing = NoFraming
    /\ npieces < MaxPieces
    /\ payload' = payload \o piece
    /\ npieces' = npieces + 1
    /\ UNCHANGED <<framing, encoded, decoded>>
    /\ UNCHANGED otherThanFrame

\* the writer frames it for the version of the session
FrameWrite(f) ==
    /\ framing = NoFraming
    /\ framing' = f
    /\ encoded' = Encode(f, payload)
    /\ UNCHANGED <<payload, npieces, decoded>>
    /\ UNCHANGED otherThanFrame

\* the reader of the other side takes it off the wire
FrameRead ==
    /\ framing # NoFraming
    /\ decoded = NotDecoded
    /\ decoded' = Decode(framing, encoded)
    /\ UNCHANGED <<payload, npieces, framing, encoded>>
    /\ UNCHANGED otherThanFrame

(***************************************************************************)
(* The host key check of the SSH client (session_client_ssh.c):            *)
(* sshauth_hostkey_check, the DNSSEC lookup of the SSHFP records it makes  *)
(* in a build with ENABLE_DNSSEC, and what connect_ssh_session_netconf     *)
(* does with its result.                                                   *)
(***************************************************************************)
\* the most resource records in the answer section of a DNS response
MaxRR == 2
\* the most answers that are neither yes nor no the user gives to one prompt
MaxPrompts == 2

\* ssh_is_server_known()
ServerKnown ==
    {"KNOWN_OK", "KNOWN_CHANGED", "FOUND_OTHER", "FILE_NOT_FOUND", "NOT_KNOWN", "ERROR"}
\* the states that lead to the label hostkey_not_known
HostkeyNotKnown == {"FOUND_OTHER", "FILE_NOT_FOUND", "NOT_KNOWN"}
\* a check that lets a changed key go on to the label hostkey_not_known
HostkeyFailsOnError == {"ERROR"}
\* the states that end the check with -1: goto fail, and the return -1 of the error
HostkeyFails == {"KNOWN_CHANGED", "ERROR"}
\* enum ssh_keytypes_e
KeyTypes == {"UNKNOWN", "DSS", "RSA", "RSA1", "ECDSA", "ED25519"}
\* what fscanf(stdin, "%4s", answer) gives: yes, no, any other word, end of input
Answers == {"yes", "no", "other", "EOF"}

\* the resource record type of SSHFP
SSHFP == 44
\* the fingerprints a record can hold: the one of the server's key, another one
Fingerprints == {"server", "other"}
\* the resource records of an answer section: rdata[0] is the key type,
\* rdata[1] the hash algorithm, the rest the fingerprint
RRs == [rrtype : {SSHFP, 1}, type : 1..3, alg : 1..2, fp : Fingerprints]
\* where val_res_query and the parsing of its response can fail
DnsFailures == {"none", "len", "untrusted", "parse", "rcode", "qd", "query"}
\* the responses: the answer section matters only in one that is parsed
DnsResponses ==
    [fail : DnsFailures \ {"none"}, ad : BOOLEAN, an : {<<>>}]
        \cup [fail : {"none"}, ad : BOOLEAN, an : UNION {[1..n -> RRs] : n \in 0..MaxRR}]
NoResponse == [fail |-> "len", ad |-> FALSE, an |-> <<>>]

\* the loop over the answer section: the first SSHFP record of the key type
\* and algorithm decides
RECURSIVE AnswerSection(_, _, _, _, _)
AnswerSection(an, sha1hash, type, alg, ret) ==
    IF an = <<>> THEN 2
    ELSE LET rr == Head(an)
         IN  IF rr.rrtype # SSHFP \/ rr.type # type \/ rr.alg # alg
             THEN AnswerSection(Tail(an), sha1hash, type, alg, ret)
             ELSE IF rr.fp # sha1hash THEN 2 ELSE ret

\* 0 (DNSSEC + key valid), 1 (unsecure DNS + key valid), 2 (key not found or
\* an error)
sshauth_hostkey_hash_dnssec_check(resp, sha1hash, type, alg) ==
    IF resp.fail \in {"len", "untrusted"} THEN 2
    ELSE IF resp.fail = "parse" THEN 2
    ELSE IF resp.fail = "rcode" THEN 2
    ELSE LET ret == IF ~resp.ad THEN 1 ELSE 0
         IN  IF resp.fail = "qd" THEN 2
             ELSE IF resp.fail = "query" THEN 2
             ELSE AnswerSection(resp.an, sha1hash, type, alg, ret)

\* the key types the check looks up in DNS, with the SSHFP key type it asks for
SshfpType == [k \in {"DSS", "RSA", "ECDSA"} |->
                 CASE k = "DSS" -> 2 [] k = "RSA" -> 1 [] k = "ECDSA" -> 3]

NoCheck ==
    [pc |-> "idle", dnssec |-> FALSE, state |-> "none", keytype |-> "none",
     looked |-> FALSE, ret |-> 0, prompted |-> FALSE, answers |-> <<>>,
     writes |-> 0, stored |-> FALSE, returned |-> FALSE, result |-> 0]

\* connect_ssh_session_netconf after the check: a non-zero result makes it
\* return -1, and only after a zero result it goes on to ssh_userauth_none
HostkeyReturn(h, r) ==
    [h EXCEPT !.pc = IF r # 0 THEN "failed" ELSE "auth", !.returned = TRUE, !.result = r]

\* ssh_write_knownhost, which can fail
WriteKnownhost(h, wr) == [h EXCEPT !.writes = @ + 1, !.stored = wr]

\* if (!ret): the DNSSEC SSHFP check was successful, that is enough
DnssecAcceptsNonzero(ret) == ret # 0
DnssecAccepts(ret) == ret = 0

\* the label hostkey_not_known, up to the prompt
NotKnown(h, resp, wr) ==
    LET typed == (h.keytype # "UNKNOWN") \/ (h.keytype # "RSA1")
        looked == h.dnssec /\ typed /\ h.keytype \in DOMAIN SshfpType
        ret == IF looked
               THEN sshauth_hostkey_hash_dnssec_check(resp, "server", SshfpType[h.keytype], 1)
               ELSE h.ret
        h1 == [h EXCEPT !.looked = looked, !.ret = ret]
    IN  IF h.dnssec /\ typed /\ DnssecAccepts(ret)
        THEN HostkeyReturn(WriteKnownhost(h1, wr), 0)
        ELSE [h1 EXCEPT !.pc = "prompt", !.prompted = TRUE]

\* sshauth_hostkey_check, up to its return or to its first read of an answer
HostkeyCheck ==
    /\ hk.pc = "idle"
    /\ \E build \in BOOLEAN, state \in ServerKnown, key \in {"ok", "nokey", "nohash"},
          keytype \in KeyTypes, wr \in BOOLEAN :
          LET h == [hk EXCEPT !.dnssec = build, !.state = state,
                              !.keytype = IF key = "nokey" THEN "none" ELSE keytype,
                              !.ret = IF key = "ok" THEN 0 ELSE -1]
          IN  IF key # "ok" THEN hk' = HostkeyReturn(h, -1)
              ELSE IF state = "KNOWN_OK" THEN hk' = HostkeyReturn(h, 0)
              ELSE IF state \in HostkeyFails THEN hk' = HostkeyReturn(h, -1)
              ELSE IF build /\ keytype \in DOMAIN SshfpType
                   THEN \E resp \in DnsResponses : hk' = NotKnown(h, resp, wr)
                   ELSE hk' = NotKnown(h, NoResponse, wr)
    /\ UNCHANGED otherThanHostkey

\* the answers that end the loop of the prompt with success
AnswerAcceptsAll(a) == a # "no"
AnswerAccepts(a) == a = "yes"

\* one round of the loop of the prompt: the user's answer is read
HostkeyAnswer(a, wr) ==
    /\ hk.pc = "prompt"
    /\ a = "other" => Len(hk.answers) < MaxPrompts
    /\ LET h == [hk EXCEPT !.answers = Append(@, a)]
       IN  hk' = IF AnswerAccepts(a)
                 THEN HostkeyReturn([WriteKnownhost(h, wr) EXCEPT !.ret = IF wr THEN 0 ELSE -1], 0)
                 ELSE IF a \in {"EOF", "no"} THEN HostkeyReturn(h, -1)
                 ELSE h
    /\ UNCHANGED otherThanHostkey

(***************************************************************************)
(* The authentication of the SSH client (session_client_ssh.c): the two    *)
(* blocks of options with their setters, and the part of                   *)
(* connect_ssh_session_netconf from ssh_userauth_none to the request of    *)
(* the netconf subsystem.                                                  *)
(***************************************************************************)
\* NC_SSH_AUTH_TYPE
AuthTypes == {"INTERACTIVE", "PASSWORD", "PUBLICKEY"}
\* the number of preferences in a block of options
NC_SSH_AUTH_COUNT == 3
\* the preferences the application passes to the setters: the default ones,
\* zero, and negative ones
PrefArgs == -2..NC_SSH_AUTH_COUNT
\* the two kinds of client session: nc_connect_ssh, nc_accept_callhome_sock_ssh
SessionKinds == {"normal", "callhome"}

\* the static initializers of ssh_opts and ssh_ch_opts
DefaultOpts == [auth_pref |-> [INTERACTIVE |-> 3, PASSWORD |-> 2, PUBLICKEY |-> 1]]
DefaultChOpts == [auth_pref |-> [INTERACTIVE |-> 1, PASSWORD |-> 2, PUBLICKEY |-> 3]]

\* _nc_client_ssh_set_auth_pref
set_auth_pref(auth_type, pref, opts) ==
    [opts EXCEPT !.auth_pref[auth_type] = IF pref < 0 THEN -1 ELSE pref]

NoAuth ==
    [pc |-> "idle", kind |-> "none", offered |-> {}, userauthlist |-> {},
     ret_auth |-> "NONE", tried |-> <<>>, gaveup |-> FALSE, channel |-> "NULL"]

\* nc_client_ssh_set_auth_pref, called before the application connects
SetAuthPref(auth_type, pref) ==
    /\ au.pc = "idle"
    /\ nset < NC_SSH_AUTH_COUNT
    /\ ssh_opts' = set_auth_pref(auth_type, pref, ssh_opts)
    /\ nset' = nset + 1
    /\ UNCHANGED <<ssh_ch_opts, au>>
    /\ UNCHANGED otherThanAuth

\* nc_client_ssh_ch_set_auth_pref, called before the application connects
ChSetAuthPref(auth_type, pref) ==
    /\ au.pc = "idle"
    /\ nset < NC_SSH_AUTH_COUNT
    /\ ssh_ch_opts' = set_auth_pref(auth_type, pref, ssh_ch_opts)
    /\ nset' = nset + 1
    /\ UNCHANGED <<ssh_opts, au>>
    /\ UNCHANGED otherThanAuth

\* the methods the removal of the disabled ones leaves of the server's list
RemoveDisabled(prefs, list) == {m \in list : ~(prefs[m] < 0)}

\* ssh_userauth_none and ssh_userauth_list, for a session of either kind: the
\* server answers the none request and names the methods it offers
AuthStart(kind, offered, none) ==
    /\ au.pc = "idle"
    /\ au' = [au EXCEPT
                !.kind = kind,
                !.offered = offered,
                !.ret_auth = none,
                !.userauthlist = IF none = "ERROR" THEN {}
                                 ELSE RemoveDisabled(ssh_opts.auth_pref, offered),
                !.pc = CASE none = "ERROR" -> "failed"
                         [] none = "SUCCESS" -> "authed"
                         [] OTHER -> "loop"]
    /\ UNCHANGED <<ssh_opts, ssh_ch_opts, nset>>
    /\ UNCHANGED otherThanAuth

\* the choice of the method of one round of the loop; NONE is auth = 0
SelectAuth(prefs, list) ==
    LET auth0 == IF "INTERACTIVE" \in list THEN "INTERACTIVE" ELSE "NONE"
        pref0 == IF "INTERACTIVE" \in list THEN prefs["INTERACTIVE"] ELSE 0
        pw == "PASSWORD" \in list /\ prefs["PASSWORD"] > pref0
        auth1 == IF pw THEN "PASSWORD" ELSE auth0
        pref1 == IF pw THEN prefs["PASSWORD"] ELSE pref0
    IN  IF "PUBLICKEY" \in list /\ prefs["PUBLICKEY"] > pref1 THEN "PUBLICKEY" ELSE auth1

\* one round of the loop: a method is chosen, taken off the list and tried,
\* or none is left and the connect fails
AuthRound(outcome) ==
    /\ au.pc = "loop"
    /\ LET auth == SelectAuth(ssh_opts.auth_pref, au.userauthlist)
       IN  au' = IF auth = "NONE"
                 THEN [au EXCEPT !.gaveup = TRUE, !.pc = "failed"]
                 ELSE [au EXCEPT !.userauthlist = @ \ {auth},
                                 !.tried = Append(@, auth),
                                 !.ret_auth = outcome,
                                 !.pc = IF outcome = "SUCCESS" THEN "authed" ELSE "loop"]
    /\ UNCHANGED <<ssh_opts, ssh_ch_opts, nset>>
    /\ UNCHANGED otherThanAuth

\* the channel and the netconf subsystem, after the authentication
AuthChannel(failure) ==
    /\ au.pc = "authed"
    /\ au' = IF failure = "none"
             THEN [au EXCEPT !.channel = "NETCONF", !.pc = "done"]
             ELSE [au EXCEPT !.channel = "NULL", !.pc = "failed"]
    /\ UNCHANGED <<ssh_opts, ssh_ch_opts, nset>>
    /\ UNCHANGED otherThanAuth

(***************************************************************************)
(* The configuration of the server's endpoints and nc_accept.  Their code  *)
(* is not in the repository: the operations are the ones of                *)
(* tests/test_server_thread.c, and what they do is what the specification  *)
(* says of endpoints (section 4.5) and of the configuration locks          *)
(* (section 5).                                                            *)
(***************************************************************************)
\* the most configuration operations the threads issue
MaxCfgOps == 2
CfgThreads == {"c1", "c2"}
Kinds == {"SSH", "TLS"}
EndptNames == {"main", "secondary", "tertiary", "quaternary"}

NoEndpt == [exists |-> FALSE, port |-> 0, attrs |-> {}, items |-> {}]
Endpt(port, attrs, items) ==
    [exists |-> TRUE, port |-> port, attrs |-> attrs, items |-> items]
Attr(attr, val) == [attr |-> attr, val |-> val]

\* the endpoints main() of the test sets up before it starts the threads
TestCfg ==
    [SSH |-> [main |-> Endpt(6001, {Attr("hostkey", "key_rsa")},
                             {Attr("authkey", "key_dsa.pub test"),
                              Attr("authkey", "key_ecdsa.pub test2")}),
              secondary |-> Endpt(6002, {}, {}),
              tertiary |-> NoEndpt,
              quaternary |-> Endpt(6004, {}, {})],
     TLS |-> [main |-> Endpt(6501, {Attr("cert", "server.crt"), Attr("key", "server.key")},
                             {Attr("certs", "client.crt"),
                              Attr("ctn", "0 SPECIFIED test"),
                              Attr("ctn", "0 SAN_ANY")}),
              secondary |-> Endpt(6502, {}, {}),
              tertiary |-> NoEndpt,
              quaternary |-> Endpt(6504, {}, {})]]

Op(kind, op, name, port, attr, val) ==
    [kind |-> kind, op |-> op, name |-> name, port |-> port, attr |-> attr, val |-> val]

\* the operations of the threads of the test
TestOps ==
    {Op("SSH", "add", "tertiary", 6003, "", ""),
     Op("SSH", "set_port", "quaternary", 6005, "", ""),
     Op("SSH", "del", "secondary", 0, "", ""),
     Op("SSH", "set", "main", 0, "hostkey", "key_dsa"),
     Op("SSH", "set", "main", 0, "banner", "Howdy, partner!"),
     Op("SSH", "set", "main", 0, "auth_methods", "PUBLICKEY PASSWORD INTERACTIVE"),
     Op("SSH", "set", "main", 0, "auth_attempts", "2"),
     Op("SSH", "set", "main", 0, "auth_timeout", "5"),
     Op("SSH", "add_item", "main", 0, "authkey", "key_rsa.pub test3"),
     Op("SSH", "del_item", "main", 0, "authkey", "key_ecdsa.pub test2"),
     Op("TLS", "add", "tertiary", 6503, "", ""),
     Op("TLS", "set_port", "quaternary", 6505, "", ""),
     Op("TLS", "del", "secondary", 0, "", ""),
     Op("TLS", "set", "quaternary", 0, "cert", "inline"),
     Op("TLS", "set", "quaternary", 0, "key", "inline"),
     Op("TLS", "add_item", "quaternary", 0, "certs", "inline"),
     Op("TLS", "add_item", "quaternary", 0, "certs", "serverca.pem data"),
     Op("TLS", "clear", "quaternary", 0, "certs", ""),
     Op("TLS", "add_item", "quaternary", 0, "crls", "data"),
     Op("TLS", "clear", "quaternary", 0, "crls", ""),
     Op("TLS", "add_item", "main", 0, "ctn", "0 SPECIFIED test2"),
     Op("TLS", "del_item", "main", 0, "ctn", "0 SAN_ANY")}

\* one operation on the endpoints of its kind: what they become, and what it
\* returns (0, or -1 for a name that does not exist, that exists already, or
\* an entry that is not there)
ApplyOp(E, o) ==
    LET e == E[o.name]
        ok(new) == [endpts |-> [E EXCEPT ![o.name] = new], ret |-> 0]
        err == [endpts |-> E, ret |-> -1]
    IN  CASE o.op = "add" ->
                 IF e.exists THEN err ELSE ok(Endpt(o.port, {}, {}))
          [] o.op = "del" ->
                 IF ~e.exists THEN err ELSE ok(NoEndpt)
          [] o.op = "set_port" ->
                 IF ~e.exists THEN err ELSE ok([e EXCEPT !.port = o.port])
          [] o.op = "set" ->
                 IF ~e.exists THEN err
                 ELSE ok([e EXCEPT !.attrs = {a \in @ : a.attr # o.attr} \cup {Attr(o.attr, o.val)}])
          [] o.op = "add_item" ->
                 IF ~e.exists THEN err
                 ELSE ok([e EXCEPT !.items = @ \cup {Attr(o.attr, o.val)}])
          [] o.op = "del_item" ->
                 IF ~e.exists \/ Attr(o.attr, o.val) \notin e.items THEN err
                 ELSE ok([e EXCEPT !.items = @ \ {Attr(o.attr, o.val)}])
          [] o.op = "clear" ->
                 IF ~e.exists THEN err
                 ELSE ok([e EXCEPT !.items = {a \in @ : a.attr # o.attr}])

NoOp == Op("", "", "", 0, "", "")
CfgIdle == [pc |-> "idle", op |-> NoOp, copy |-> <<>>]

\* the configuration lock of a transport kind
CanLockCfgAlways(kind) == TRUE
CanLockCfg(kind) == cfgLock[kind] = NoThread

\* a configuration operation takes the lock of its kind and reads the
\* endpoints
CfgBegin(t, o) ==
    /\ acc.pc # "off"
    /\ cpc[t].pc = "idle"
    /\ o \notin taken
    /\ Cardinality(taken) < MaxCfgOps
    /\ CanLockCfg(o.kind)
    /\ cfgLock' = [cfgLock EXCEPT ![o.kind] = t]
    /\ cpc' = [cpc EXCEPT ![t] = [pc |-> "locked", op |-> o, copy |-> cfg[o.kind]]]
    /\ taken' = taken \cup {o}
    /\ UNCHANGED <<cfg, ser, failed, acc>>
    /\ UNCHANGED otherThanCfg

\* it stores what it has made of them, releases the lock and returns
CfgEnd(t) ==
    /\ cpc[t].pc = "locked"
    /\ LET o == cpc[t].op
           done == ApplyOp(cpc[t].copy, o)
       IN  /\ cfg' = [cfg EXCEPT ![o.kind] = done.endpts]
           /\ ser' = [ser EXCEPT ![o.kind] = ApplyOp(@, o).endpts]
           /\ failed' = IF done.ret # 0 THEN failed \cup {o} ELSE failed
           /\ cfgLock' = [cfgLock EXCEPT ![o.kind] = NoThread]
    /\ cpc' = [cpc EXCEPT ![t] = CfgIdle]
    /\ UNCHANGED <<taken, acc>>
    /\ UNCHANGED otherThanCfg

\* the listening sockets of the endpoints: transport kind, name and port
Listening(C) ==
    UNION {{[kind |-> k, name |-> n, port |-> C[k][n].port] :
               n \in {m \in EndptNames : C[k][m].exists}} : k \in Kinds}

NoAccept == [pc |-> "off", socks |-> {}, ret |-> 0]

\* main() of the test: the server is initialised and gets its endpoints
\* before the threads start
CfgSetup ==
    /\ acc.pc = "off"
    /\ cfg' = TestCfg
    /\ ser' = TestCfg
    /\ acc' = [acc EXCEPT !.pc = "idle"]
    /\ UNCHANGED <<cfgLock, cpc, taken, failed>>
    /\ UNCHANGED otherThanCfg

\* nc_accept builds its poll set of all listening sockets
AcceptBuild ==
    /\ acc.pc = "idle"
    /\ acc' = [acc EXCEPT !.pc = "waiting", !.socks = Listening(cfg)]
    /\ UNCHANGED <<cfg, ser, cfgLock, cpc, taken, failed>>
    /\ UNCHANGED otherThanCfg

\* a client connects to the endpoint main of a kind; nc_accept returns 1
\* with the session when the socket is one it waits on and is still open,
\* and 0 after its timeout otherwise
AcceptConn(k) ==
    /\ acc.pc = "waiting"
    /\ LET sock == [kind |-> k, name |-> "main", port |-> TestCfg[k].main.port]
       IN  acc' = [acc EXCEPT !.pc = "returned",
                              !.ret = IF sock \in acc.socks \cap Listening(cfg) THEN 1 ELSE 0]
    /\ UNCHANGED <<cfg, ser, cfgLock, cpc, taken, failed>>
    /\ UNCHANGED otherThanCfg

(***************************************************************************)
(* The poll engine of the server (nc_ps_poll).  Only struct nc_pollsession *)
(* is part of these sources; the engine is modelled from what the         *)
(* specification says of it (section 4.6) and of the transport lock       *)
(* (section 5): wait for a readable session, pick the one that became     *)
(* ready first, read one message under its transport lock, dispatch it to *)
(* the handler if it is an RPC and write the handler's reply, return.     *)
(***************************************************************************)
\* the most messages the clients send to the server
MaxRpcs == 3

\* the server's threads that poll, and the sessions in the poll set of each
PollThreads == {"p1", "p2"}
PollSessions == 1..3
PollSets == [p1 |-> {1, 2}, p2 |-> {2, 3}]

\* what a client sends: an RPC, or a message that is none
MsgKinds == {"rpc", "other"}

NoPollCall == [pc |-> "idle", e |-> 0, nd |-> 0, ret |-> "none"]

NoPoll ==
    [arrived |-> <<>>, served |-> {},
     lock |-> [s \in PollSessions |-> NoThread],
     dispatched |-> [s \in PollSessions |-> 0],
     replied |-> [s \in PollSessions |-> 0],
     thr |-> [t \in PollThreads |-> NoPollCall]]

\* a message of a client arrives on session s: the session is ready
PsArrive(s, kind) ==
    /\ Len(ps.arrived) < MaxRpcs
    /\ ps' = [ps EXCEPT !.arrived = Append(@, [s |-> s, kind |-> kind])]
    /\ UNCHANGED otherThanPoll

\* the messages nobody has read yet that wait on the sessions of a poll set
Ready(set) ==
    {e \in DOMAIN ps.arrived : e \notin ps.served /\ ps.arrived[e].s \in set}

\* a poll that takes any ready session
PickAny(set) == Ready(set)

\* the session a poll picks: the one that became ready first
Pick(set) == {e \in Ready(set) : \A o \in Ready(set) : e <= o}

\* the transport lock of a session
PsCanLockAlways(s) == TRUE
PsCanLock(s) == ps.lock[s] = NoThread

\* nc_ps_poll: a session is readable; under its transport lock one message
\* is read
PollBegin(t) ==
    /\ ps.thr[t].pc = "idle"
    /\ \E e \in Pick(PollSets[t]) :
          LET m == ps.arrived[e]
          IN  /\ PsCanLock(m.s)
              /\ ps' = [ps EXCEPT !.served = @ \cup {e},
                                  !.lock[m.s] = t,
                                  !.thr[t] = [pc |-> IF m.kind = "rpc" THEN "dispatch" ELSE "other",
                                              e |-> e, nd |-> 0, ret |-> "none"]]
    /\ UNCHANGED otherThanPoll

\* nc_ps_poll: no session became readable within the timeout
PollIdle(t) ==
    /\ ps.thr[t].pc = "idle"
    /\ ps.thr[t].ret # "idle"
    /\ Ready(PollSets[t]) = {}
    /\ ps' = [ps EXCEPT !.thr[t] = [NoPollCall EXCEPT !.ret = "idle"]]
    /\ UNCHANGED otherThanPoll

\* the RPC is given to the handler of the application
PollDispatch(t) ==
    /\ ps.thr[t].pc = "dispatch"
    /\ LET s == ps.arrived[ps.thr[t].e].s
       IN  ps' = [ps EXCEPT !.dispatched[s] = @ + 1,
                            !.thr[t].nd = @ + 1,
                            !.thr[t].pc = "reply"]
    /\ UNCHANGED otherThanPoll

\* the handler's reply is written, the lock released, the call returns
PollReply(t) ==
    /\ ps.thr[t].pc = "reply"
    /\ LET s == ps.arrived[ps.thr[t].e].s
       IN  ps' = [ps EXCEPT !.replied[s] = @ + 1,
                            !.lock[s] = NoThread,
                            !.thr[t].pc = "idle",
                            !.thr[t].ret = "rpc-dispatched"]
    /\ UNCHANGED otherThanPoll

\* the message was no RPC: nothing is dispatched
PollOther(t) ==
    /\ ps.thr[t].pc = "other"
    /\ LET s == ps.arrived[ps.thr[t].e].s
       IN  ps' = [ps EXCEPT !.lock[s] = NoThread,
                            !.thr[t].pc = "idle",
                            !.thr[t].ret = "no-rpc"]
    /\ UNCHANGED otherThanPoll

(***************************************************************************)
(* The session ids of the server.  struct nc_server_opts has the counter  *)
(* new_session_id and its spinlock sid_lock, struct nc_session the field  *)
(* id; nc_accept, which assigns the ids, is not part of these sources and *)
(* is modelled from the specification (sections 3, 4.4 and 5): the id is  *)
(* taken from the counter under the spinlock and goes out with the        *)
(* server's hello.                                                         *)
(***************************************************************************)
\* the most sessions the server accepts
MaxAccepts == 3

\* the threads of the server that call nc_accept
AcceptThreads == {"a1", "a2"}

\* a server session as calloc leaves it, and with how many writes of its id
NoServerSession == [id |-> 0, writes |-> 0, status |-> "STARTING"]

\* the value of the counter when the server starts: ids are non-zero
FirstSessionId == 1

NoSid ==
    [new_session_id |-> FirstSessionId, sid_lock |-> NoThread, sessions |-> <<>>,
     thr |-> [t \in AcceptThreads |-> [pc |-> "idle", s |-> 0, id |-> 0]]]

\* nc_accept: a connection was accepted and authenticated, the session is made
SidAccept(t) ==
    /\ sid.thr[t].pc = "idle"
    /\ Len(sid.sessions) < MaxAccepts
    /\ sid' = [sid EXCEPT !.sessions = Append(@, NoServerSession),
                          !.thr[t] = [pc |-> "lock", s |-> Len(sid.sessions) + 1, id |-> 0]]
    /\ UNCHANGED otherThanSid

\* the spinlock of the counter
SidCanLockAlways == TRUE
SidCanLock == sid.sid_lock = NoThread

\* pthread_spin_lock(&sid_lock)
SidLock(t) ==
    /\ sid.thr[t].pc = "lock"
    /\ SidCanLock
    /\ sid' = [sid EXCEPT !.sid_lock = t, !.thr[t].pc = "read"]
    /\ UNCHANGED otherThanSid

\* the counter is read
SidRead(t) ==
    /\ sid.thr[t].pc = "read"
    /\ sid' = [sid EXCEPT !.thr[t].id = sid.new_session_id, !.thr[t].pc = "incr"]
    /\ UNCHANGED otherThanSid

\* session->id = new_session_id++, the spinlock is released
SidAssign(t) ==
    /\ sid.thr[t].pc = "incr"
    /\ LET s == sid.thr[t].s
       IN  sid' = [sid EXCEPT !.sessions[s].id = sid.thr[t].id,
                              !.sessions[s].writes = @ + 1,
                              !.new_session_id = sid.thr[t].id + 1,
                              !.sid_lock = IF @ = t THEN NoThread ELSE @,
                              !.thr[t].pc = "hello"]
    /\ UNCHANGED otherThanSid

\* the hello with the session-id was exchanged: the session runs and nc_accept
\* returns it; or the handshake failed and the session is freed
SidHello(t, ok) ==
    /\ sid.thr[t].pc = "hello"
    /\ LET s == sid.thr[t].s
       IN  sid' = [sid EXCEPT !.sessions[s].status = IF ok THEN "RUNNING" ELSE "INVALID",
                              !.thr[t] = [pc |-> "idle", s |-> 0, id |-> 0]]
    /\ UNCHANGED otherThanSid

(***************************************************************************)
(* Cert-to-name.  struct nc_tls_server_opts has the table (id,            *)
(* fingerprint, map type, name); the functions that fill and search it    *)
(* are not part of these sources.  The test adds entries with             *)
(* nc_server_tls_endpt_add_ctn, two of them with the same id; the search  *)
(* is modelled from the specification (section 4.5, TLS authentication).  *)
(***************************************************************************)
\* the most entries of the table
MaxCtn == 3

CtnIds == 0..2
CtnFingerprints == {"02:D3", "02:00"}
NC_TLS_CTN_MAPTYPE == {"SPECIFIED", "SAN_DNS_NAME", "COMMON_NAME"}

\* the entries the application adds; only a SPECIFIED entry has a name
CtnEntries ==
    {[id |-> i, fingerprint |-> f, map_type |-> m,
      name |-> IF m = "SPECIFIED" THEN "test" ELSE "NULL"] :
        i \in CtnIds, f \in CtnFingerprints, m \in NC_TLS_CTN_MAPTYPE}

\* the certificates a client presents: all have a subject common name, some a
\* DNS name among their subject alternative names
ClientCerts ==
    [fingerprint : {"02:D3"}, cn : {"client.cn"}, san_dns : {"NULL", "client.dns"}]

NoCert == [fingerprint |-> "NULL", cn |-> "NULL", san_dns |-> "NULL"]
NoCtn == [table |-> <<>>, cert |-> NoCert, verified |-> FALSE, username |-> "NULL",
          session |-> FALSE]

\* nc_server_tls_endpt_add_ctn: the entry is added to the table
CtnAdd(e) ==
    /\ ~ctn.verified
    /\ Len(ctn.table) < MaxCtn
    /\ ctn' = [ctn EXCEPT !.table = Append(@, e)]
    /\ UNCHANGED otherThanCtn

\* the username an entry gives for a certificate, "NULL" when it gives none
CtnName(e, cert) ==
    CASE e.map_type = "SPECIFIED" -> e.name
      [] e.map_type = "SAN_DNS_NAME" -> cert.san_dns
      [] e.map_type = "COMMON_NAME" -> cert.cn

\* the rule of an entry matches a certificate
CtnMatches(e, cert) ==
    e.fingerprint = cert.fingerprint /\ CtnName(e, cert) # "NULL"

\* a search that takes the first matching entry in the order of insertion
FirstInserted(table, M) == {i \in M : \A o \in M : i <= o}

\* the first matching entries in the order of their ids
LowestId(table, M) == {i \in M : \A o \in M : table[i].id <= table[o].id}

\* the usernames the search can give for a certificate; none when no entry matches
cert_to_name(table, cert) ==
    LET M == {i \in DOMAIN table : CtnMatches(table[i], cert)}
    IN  {CtnName(table[i], cert) : i \in LowestId(table, M)}

\* a client presents its certificate: the TLS session gets the mapped username, or
\* the authentication fails and nc_accept returns no session
CtnVerify(cert) ==
    /\ ~ctn.verified
    /\ LET names == cert_to_name(ctn.table, cert)
       IN  \/ /\ names = {}
              /\ ctn' = [ctn EXCEPT !.cert = cert, !.verified = TRUE]
           \/ \E n \in names :
                 ctn' = [ctn EXCEPT !.cert = cert, !.verified = TRUE,
                                    !.username = n, !.session = TRUE]
    /\ UNCHANGED otherThanCtn

(***************************************************************************)
(* nc_read_msg_poll: the read of one message with a timeout.  Its         *)
(* declaration and the description of its results are in session_p.h, its *)
(* body is not part of these sources; the waiting is modelled from the    *)
(* specification (section 5: negative = infinite, zero = non-blocking     *)
(* probe, back-off between the retries; section 7: timeouts are never     *)
(* fatal).  Time is counted in milliseconds.                               *)
(***************************************************************************)
\* the longest time a call is followed, in milliseconds
MaxWait == 3

\* the timeouts of the calls
ReadTimeouts == -1..MaxWait

NC_MSG_TYPE == {"NC_MSG_ERROR", "NC_MSG_WOULDBLOCK", "NC_MSG_NONE", "NC_MSG_HELLO",
                "NC_MSG_RPC", "NC_MSG_REPLY", "NC_MSG_NOTIF"}

\* what can be on the wire: nothing, a whole message of one of the four kinds,
\* bytes that are no message, the end of the transport
WireStates == {"empty", "hello", "rpc", "rpc-reply", "notification", "garbage", "eof"}

NoRead ==
    [pc |-> "idle", timeout |-> 0, elapsed |-> 0, wire |-> "empty", seen |-> FALSE,
     ret |-> "NC_MSG_NONE", status |-> "RUNNING", status0 |-> "RUNNING"]

\* nc_read_msg_poll(session, timeout, &data) is called on a session that is
\* starting (its hello is read) or running
ReadCall(timeout, st) ==
    /\ rd.pc = "idle"
    /\ rd.ret = "NC_MSG_NONE"
    /\ rd' = [rd EXCEPT !.pc = "probe", !.timeout = timeout, !.elapsed = 0,
                        !.status = st, !.status0 = st]
    /\ UNCHANGED otherThanRead

\* the peer sends something, or closes
WireArrive(w) ==
    /\ rd.wire = "empty"
    /\ rd.pc # "returned"
    /\ w # "empty"
    /\ rd' = [rd EXCEPT !.wire = w]
    /\ UNCHANGED otherThanRead

\* the type of a message, by its top level element
MsgType(w) ==
    CASE w = "hello" -> "NC_MSG_HELLO"
      [] w = "rpc" -> "NC_MSG_RPC"
      [] w = "rpc-reply" -> "NC_MSG_REPLY"
      [] w = "notification" -> "NC_MSG_NOTIF"
      [] OTHER -> "NC_MSG_ERROR"

\* a timeout that has passed whatever its sign
TimedOutAnySign(timeout, elapsed) == elapsed >= timeout

\* the timeout has passed: a negative one never does
TimedOut(timeout, elapsed) == timeout >= 0 /\ elapsed >= timeout

\* the transport is probed: what is there is read and its type returned (an error
\* for what is no message; the end of the transport makes the session invalid);
\* with nothing there the call returns NC_MSG_WOULDBLOCK when its timeout has
\* passed, and sleeps otherwise
ReadProbe ==
    /\ rd.pc = "probe"
    /\ IF rd.wire # "empty"
       THEN rd' = [rd EXCEPT !.pc = "returned", !.seen = TRUE, !.wire = "empty",
                             !.ret = MsgType(rd.wire),
                             !.status = IF rd.wire = "eof" THEN "INVALID" ELSE @]
       ELSE IF TimedOut(rd.timeout, rd.elapsed)
       THEN rd' = [rd EXCEPT !.pc = "returned", !.ret = "NC_MSG_WOULDBLOCK"]
       ELSE rd' = [rd EXCEPT !.pc = "sleep"]
    /\ UNCHANGED otherThanRead

\* usleep(NC_READ_SLEEP) and the retries, for a millisecond
ReadSleep ==
    /\ rd.pc = "sleep"
    /\ rd.elapsed <= MaxWait
    /\ rd' = [rd EXCEPT !.pc = "probe", !.elapsed = @ + 1]
    /\ UNCHANGED otherThanRead

(***************************************************************************)
(* nc_connect_ssh: its parameters and what it stores in the session.      *)
(***************************************************************************)
\* the default port of NETCONF over SSH (the macro is defined in a header that is
\* not part of these sources)
NC_PORT_SSH == 830

\* the arguments of the calls: host (NULL, empty or a name), port (uint16_t)
HostArgs == {"NULL", "", "localhost", "192.0.2.1"}
PortArgs == {0, 22, 830, 65535}
\* ssh_opts.username, and the name getpwuid() gives (NULL when it fails)
OptUsernames == {"NULL", "admin"}
PwNames == {"NULL", "root"}

NoPeer == [host |-> "NULL", port |-> 0, username |-> "NULL"]
NoConnect ==
    [pc |-> "idle", host |-> "NULL", port |-> 0, dialled |-> NoPeer, ssh |-> NoPeer,
     session |-> NoPeer, ret |-> "none"]

\* a default that replaces a NULL host only
HostOrDefaultNullOnly(host) == IF host = "NULL" THEN "localhost" ELSE host

\* if (!host || strisempty(host)) host = "localhost";
HostOrDefault(host) == IF host = "NULL" \/ host = "" THEN "localhost" ELSE host

\* if (!port) port = NC_PORT_SSH;
PortOrDefault(port) == IF port = 0 THEN NC_PORT_SSH ELSE port

\* the parameters are processed, the session and the SSH session are made, the
\* SSH options set and the socket connected; without a username the call returns
\* NULL at once
ConnectCall(host, port, optname, pwname) ==
    /\ co.pc = "idle"
    /\ co.ret = "none"
    /\ LET h == HostOrDefault(host)
           p == PortOrDefault(port)
           username == IF optname = "NULL" THEN pwname ELSE optname
           peer == [host |-> h, port |-> p, username |-> username]
       IN  IF username = "NULL"
           THEN co' = [co EXCEPT !.host = host, !.port = port, !.ret = "NULL"]
           ELSE \/ co' = [co EXCEPT !.host = host, !.port = port, !.pc = "connected",
                                    !.ssh = peer,
                                    !.dialled = [peer EXCEPT !.username = "NULL"],
                                    !.session = [peer EXCEPT !.port = 0]]
                \/ co' = [co EXCEPT !.host = host, !.port = port, !.ret = "NULL",
                                    !.ssh = peer,
                                    !.dialled = [peer EXCEPT !.username = "NULL"]]
    /\ UNCHANGED otherThanConnect

\* connect_ssh_session_netconf, nc_handshake and nc_ctx_check_and_fill; then host,
\* port and username are stored in the session and it is returned.  A failure goes
\* to fail: the session is freed.
ConnectFinish(ok) ==
    /\ co.pc = "connected"
    /\ IF ok
       THEN co' = [co EXCEPT !.pc = "idle", !.ret = "session",
                             !.session = [host |-> co.ssh.host, port |-> co.ssh.port,
                                          username |-> co.ssh.username]]
       ELSE co' = [co EXCEPT !.pc = "idle", !.ret = "NULL", !.session = NoPeer]
    /\ UNCHANGED otherThanConnect

(***************************************************************************)
(* The key pairs of the SSH client options: _nc_client_ssh_add_keypair,   *)
(* _nc_client_ssh_del_keypair and nc_client_ssh_destroy, on the block of  *)
(* the normal sessions (ssh_opts) and of the Call Home sessions           *)
(* (ssh_ch_opts).  A block has the array keys, which is NULL or on the    *)
(* heap, and key_count.                                                    *)
(***************************************************************************)
\* the most calls the application makes
MaxKeyCalls == 3

PubKeys == {"a.pub", "b.pub"}
PrivKeys == {"a", "b"}
\* the private key file: it cannot be opened, it has less than two lines, its second
\* line says it is encrypted or does not
KeyFiles == {"absent", "short", "encrypted", "plain"}
\* the idx arguments (int)
KeyIdx == -1..2

NoKeyBlock == [keys |-> <<>>, key_count |-> 0, ptr |-> "NULL"]
NoKeyCall == [fn |-> "none", block |-> "normal", ret |-> 0, idx |-> 0, pub |-> "NULL", priv |-> "NULL"]
NoKeys ==
    [opts |-> [k \in SessionKinds |-> NoKeyBlock],
     before |-> [k \in SessionKinds |-> NoKeyBlock],
     heap |-> "ok", was |-> "ok", crashed |-> FALSE, call |-> NoKeyCall, ncalls |-> 0]

\* a call can be made
KeyCallable == ~ky.crashed /\ ky.ncalls < MaxKeyCalls

\* the call of fn on block k: for add with the paths pub and priv, for del and get
\* with idx; get leaves in pub and priv what it stored through its pointers
KeyCall(fn, k, ret, idx, pub, priv) ==
    [fn |-> fn, block |-> k, ret |-> ret, idx |-> idx, pub |-> pub, priv |-> priv]

\* the state after the call c that left its block as b
KeyReturn(c, b, heap) ==
    [ky EXCEPT !.opts[c.block] = b, !.before = ky.opts, !.heap = heap, !.was = ky.heap,
               !.call = c, !.ncalls = @ + 1]

\* the process dies in the call c
KeyCrash(c) ==
    [ky EXCEPT !.before = ky.opts, !.was = ky.heap, !.crashed = TRUE, !.call = c,
               !.ncalls = @ + 1]

\* a loop that takes a pair for set as soon as one of the two paths is
PairAlreadySetEither(b, pub, priv) ==
    \E i \in 1..b.key_count :
        i <= Len(b.keys) /\ (b.keys[i].pubkey_path = pub \/ b.keys[i].privkey_path = priv)

\* the loop of add_keypair finds the very pair: same public and same private key
PairAlreadySet(b, pub, priv) ==
    \E i \in 1..b.key_count :
        i <= Len(b.keys) /\ b.keys[i].pubkey_path = pub /\ b.keys[i].privkey_path = priv

\* _nc_client_ssh_add_keypair(pub_key, priv_key, opts), with the private key
\* file as `file`.  The pair is appended before the file is looked at.
AddKeypair(k, pub, priv, file) ==
    /\ KeyCallable
    /\ LET b == ky.opts[k]
           c(ret) == KeyCall("add", k, ret, 0, pub, priv)
           added == [keys |-> Append(b.keys, [pubkey_path |-> pub, privkey_path |-> priv,
                                              privkey_crypt |-> IF file = "encrypted" THEN 1 ELSE 0]),
                     key_count |-> b.key_count + 1, ptr |-> "heap"]
       IN  IF pub = "NULL" \/ priv = "NULL" \/ PairAlreadySet(b, pub, priv)
           THEN ky' = KeyReturn(c(-1), b, ky.heap)
           ELSE IF b.key_count < 0
           THEN \* keys[key_count - 1] is not an element of the array: undefined
                \/ ky' = KeyCrash(c(0))
                \/ ky' = KeyReturn(c(0), [b EXCEPT !.key_count = @ + 1], "corrupt")
           ELSE \/ ky' = KeyReturn(c(IF file = "short" THEN -1 ELSE 0), added, ky.heap)
                \/ ky.heap = "corrupt" /\ ky' = KeyCrash(c(0))
    /\ UNCHANGED otherThanKeys

\* an array that is only shortened by one, whatever idx is
RemoveLast(keys, idx) == SubSeq(keys, 1, Len(keys) - 1)

\* the array after the pair at idx (counted from 0) was overwritten by the last
\* one and the array shortened by one
RemoveAt(keys, idx) ==
    LET n == Len(keys)
    IN  [i \in 1..(n - 1) |-> IF i = idx + 1 THEN keys[n] ELSE keys[i]]

\* if (idx >= opts->key_count) { ERRARG; return -1; }
IdxRefused(idx, b) == idx >= b.key_count

\* _nc_client_ssh_del_keypair(idx, opts).  A negative idx passes the check: what
\* is before the array is freed and overwritten, which is undefined; the process
\* dies, or it goes on with a damaged heap.  realloc to size 0 leaves NULL or a
\* pointer.
DelKeypair(k, idx) ==
    /\ KeyCallable
    /\ LET b == ky.opts[k]
           c(ret) == KeyCall("del", k, ret, idx, "NULL", "NULL")
       IN  IF IdxRefused(idx, b)
           THEN ky' = KeyReturn(c(-1), b, ky.heap)
           ELSE IF idx < 0
           THEN \/ ky' = KeyCrash(c(0))
                \/ /\ b.ptr = "heap"
                   /\ ky' = KeyReturn(c(0),
                                      [b EXCEPT !.key_count = @ - 1,
                                                !.keys = SubSeq(@, 1, Len(@) - 1)],
                                      "corrupt")
           ELSE \/ \E p \in (IF b.key_count = 1 THEN {"NULL", "heap"} ELSE {"heap"}) :
                      ky' = KeyReturn(c(0),
                                      [keys |-> RemoveAt(b.keys, idx),
                                       key_count |-> b.key_count - 1, ptr |-> p],
                                      ky.heap)
                \/ ky.heap = "corrupt" /\ ky' = KeyCrash(c(0))
    /\ UNCHANGED otherThanKeys

\* what a read of memory that is no element of the array can give
Garbage == "garbage"

\* _nc_client_ssh_get_keypair(idx, pub_key, priv_key, opts), with wpub and wpriv
\* telling which of the two pointers is not NULL.  A negative idx passes the check
\* and keys[idx] is read in front of the array, which is undefined: the process
\* dies or the caller gets what lies there.
GetKeypair(k, idx, wpub, wpriv) ==
    /\ KeyCallable
    /\ LET b == ky.opts[k]
           c(ret, pub, priv) ==
               KeyCall("get", k, ret, idx, IF wpub THEN pub ELSE "NULL",
                       IF wpriv THEN priv ELSE "NULL")
       IN  IF IdxRefused(idx, b) \/ (~wpub /\ ~wpriv)
           THEN ky' = KeyReturn(c(-1, "NULL", "NULL"), b, ky.heap)
           ELSE IF idx < 0 \/ idx >= Len(b.keys)
           THEN \/ ky' = KeyCrash(c(0, "NULL", "NULL"))
                \/ ky' = KeyReturn(c(0, Garbage, Garbage), b, ky.heap)
           ELSE ky' = KeyReturn(c(0, b.keys[idx + 1].pubkey_path, b.keys[idx + 1].privkey_path),
                                b, ky.heap)
    /\ UNCHANGED otherThanKeys

\* nc_client_ssh_destroy(): the paths of the key_count pairs and the array of the
\* normal block are freed; on a damaged heap free may end the process
ClientSshDestroy ==
    /\ KeyCallable
    /\ LET c == KeyCall("destroy", "normal", 0, 0, "NULL", "NULL")
       IN  \/ ky' = KeyReturn(c, NoKeyBlock, ky.heap)
           \/ ky.heap = "corrupt" /\ ky.opts["normal"].ptr = "heap" /\ ky' = KeyCrash(c)
    /\ UNCHANGED otherThanKeys

(***************************************************************************)
(* connect_ssh_session_netconf as a whole: ssh_connect, the host key      *)
(* check, ssh_userauth_none, the loop over the methods with the loop over *)
(* the key pairs of the publickey method, the channel and the subsystem.  *)
(* `authenticated` is what the server has granted: it is set by a         *)
(* SSH_AUTH_SUCCESS of ssh_userauth_none, _password, _kbdint or           *)
(* _publickey; ssh_userauth_try_publickey only asks whether a key would   *)
(* be accepted.                                                            *)
(***************************************************************************)
\* the most key pairs in ssh_opts
MaxEstKeys == 2

\* what libssh returns from a request for authentication
AuthResults == {"SUCCESS", "DENIED", "PARTIAL", "ERROR"}

\* what can happen to one key pair in the loop of the publickey method
KeyOutcomes ==
    {"pub_import_failed", "try_denied", "try_partial", "try_error", "priv_import_failed",
     "signed_success", "signed_denied", "signed_partial", "signed_error"}

NoEstablish ==
    [pc |-> "idle", connected |-> FALSE, hostkey |-> FALSE, authenticated |-> FALSE,
     attempts |-> 0, ret_auth |-> "NONE", userauthlist |-> {}, key_count |-> 0, j |-> 0,
     tried |-> <<>>, loop |-> "before", channel |-> "NULL", ret |-> 1,
     sock |-> "none", ssh |-> "none", result |-> "none"]

\* return ret; from connect_ssh_session_netconf
EstReturn(e, ret) == [e EXCEPT !.pc = "returned", !.ret = ret]

\* ssh_connect(ssh_sess), for an application that has set key_count key pairs
EstConnect(ok, key_count) ==
    /\ est.pc = "idle"
    /\ est' = IF ok
              THEN [est EXCEPT !.connected = TRUE, !.key_count = key_count, !.pc = "hostkey"]
              ELSE EstReturn([est EXCEPT !.key_count = key_count], -1)
    /\ UNCHANGED otherThanEstablish

\* sshauth_hostkey_check(session->host, ssh_sess) returns ret
EstHostkey(ret) ==
    /\ est.pc = "hostkey"
    /\ est' = IF ret = 0
              THEN [est EXCEPT !.hostkey = TRUE, !.pc = "none"]
              ELSE EstReturn(est, -1)
    /\ UNCHANGED otherThanEstablish

\* ssh_userauth_none and ssh_userauth_list, the disabled methods are removed
EstAuthNone(r, offered) ==
    /\ est.pc = "none"
    /\ est' = IF r = "ERROR"
              THEN EstReturn([est EXCEPT !.attempts = @ + 1], -1)
              ELSE [est EXCEPT !.attempts = @ + 1, !.ret_auth = r,
                               !.authenticated = (r = "SUCCESS"),
                               !.userauthlist = RemoveDisabled(ssh_opts.auth_pref, offered),
                               !.loop = "in", !.pc = "loop"]
    /\ UNCHANGED otherThanEstablish

\* the test of the while loop and one round of it up to the call of the method,
\* which returns r for the password and the keyboard-interactive method; after the
\* loop the state of the authentication is checked and the channel made
EstRound(r) ==
    /\ est.pc = "loop"
    /\ LET auth == SelectAuth(ssh_opts.auth_pref, est.userauthlist)
           left == [est EXCEPT !.userauthlist = @ \ {auth}, !.tried = Append(@, auth)]
       IN  est' =
             IF est.ret_auth = "SUCCESS"
             THEN [est EXCEPT !.loop = "success", !.channel = "NEW", !.pc = "open"]
             ELSE IF auth = "NONE"
             THEN EstReturn([est EXCEPT !.loop = "exhausted"], -1)
             ELSE IF auth = "PUBLICKEY"
             THEN IF est.key_count = 0 THEN left
                  ELSE [left EXCEPT !.j = 0, !.pc = "keys"]
             ELSE [left EXCEPT !.attempts = @ + 1, !.ret_auth = r,
                               !.authenticated = (r = "SUCCESS")]
    /\ UNCHANGED otherThanEstablish

\* ret_auth after a key pair with outcome o was gone through
KeyRetAuth(o, ret_auth) ==
    CASE o = "pub_import_failed" -> ret_auth
      [] o = "try_denied" -> "DENIED"
      [] o = "try_partial" -> "PARTIAL"
      [] o = "try_error" -> "ERROR"
      [] o = "priv_import_failed" -> "SUCCESS"
      [] o = "signed_success" -> "SUCCESS"
      [] o = "signed_denied" -> "DENIED"
      [] o = "signed_partial" -> "PARTIAL"
      [] o = "signed_error" -> "ERROR"

\* the body of the loop over the key pairs for the pair j: the public key is
\* imported, the server asked whether it accepts it, the private key imported,
\* the signature sent; break after an error of the question and after a success of
\* the signature, continue otherwise
EstKey(o) ==
    /\ est.pc = "keys"
    /\ LET leaves == o \in {"try_error", "signed_success"} \/ est.j + 1 = est.key_count
       IN  est' = [est EXCEPT !.ret_auth = KeyRetAuth(o, @),
                              !.attempts = IF o = "pub_import_failed" THEN @ ELSE @ + 1,
                              !.authenticated = (o = "signed_success"),
                              !.j = @ + 1,
                              !.pc = IF leaves THEN "loop" ELSE "keys"]
    /\ UNCHANGED otherThanEstablish

\* ssh_channel_open_session: a server opens no channel for a client that it has
\* not authenticated; on failure the channel is freed and set to NULL
EstOpen(ok) ==
    /\ est.pc = "open"
    /\ ok => est.authenticated
    /\ est' = IF ok
              THEN [est EXCEPT !.channel = "OPEN", !.pc = "subsystem"]
              ELSE EstReturn([est EXCEPT !.channel = "NULL"], -1)
    /\ UNCHANGED otherThanEstablish

\* ssh_channel_request_subsystem(channel, "netconf")
EstSubsystem(ok) ==
    /\ est.pc = "subsystem"
    /\ est' = IF ok
              THEN EstReturn([est EXCEPT !.channel = "NETCONF"], 0)
              ELSE EstReturn([est EXCEPT !.channel = "NULL"], -1)
    /\ UNCHANGED otherThanEstablish

(***************************************************************************)
(* The ring of the sessions of one SSH connection in a client that makes  *)
(* its calls one after the other: nc_connect_ssh makes the first session  *)
(* of a connection, nc_connect_ssh_channel a further one on any member,   *)
(* nc_session_free takes one out.  A call is one step here, nothing runs  *)
(* beside it.  A failed nc_connect_ssh_channel frees its half-built       *)
(* session, whose next is NULL: rg.failed remembers that this happened.   *)
(***************************************************************************)
\* the most sessions the client makes
MaxRing == 3

RingIds == 1..MaxRing
RingHosts == {"h1", "h2"}
RingPorts == {830, 22}
RingUsers == {"alice", "bob"}

\* where nc_connect_ssh_channel can leave through fail
ChFailures == {"open", "subsystem", "handshake", "fill"}

\* what a session holds beside the fields of `sess`
\* chan is the ssh_channel object of the session, channel (in `sess`) its state
NoPeerFields == [ti_lock |-> NULL, chan |-> NULL, host |-> "", port |-> 0, username |-> ""]

NoRing ==
    [S |-> [s \in RingIds |-> NoSession @@ NoPeerFields], released |-> {}, failed |-> FALSE,
     crashed |-> FALSE]

RgFresh == {s \in RingIds : rg.S[s].mem = "none"}
RgAlive == {s \in RingIds : rg.S[s].mem = "alive"}

\* the sessions that hold SSH session c
RgOn(c) == {s \in RgAlive : rg.S[s].ssh = c}

\* nc_connect_ssh(host, port, ctx) returned a session with SSH session, lock and
\* channel of its own
RgConnect(host, port, username) ==
    /\ ~rg.crashed
    /\ RgFresh # {}
    /\ LET n == CHOOSE s \in RgFresh : \A o \in RgFresh : s <= o
           r == [AfterConnect(NewSession(n)) EXCEPT !.status = "RUNNING", !.ctx = "FILLED"]
                   @@ [ti_lock |-> n, chan |-> n, host |-> host, port |-> port,
                       username |-> username]
       IN  rg' = [rg EXCEPT !.S[n] = r]
    /\ UNCHANGED otherThanRing

\* a ring append that always puts the new session before the parent
AppendBeforeParent(S, p, n) ==
    [S EXCEPT ![p].next = n, ![n].next = p]

\* append to the session ring list
RingAppend(S, p, n) ==
    IF S[p].next = NULL
    THEN [S EXCEPT ![p].next = n, ![n].next = p]
    ELSE [S EXCEPT ![p].next = n, ![n].next = S[p].next]

\* the half-built session n of nc_connect_ssh_channel on parent: calloc, status,
\* side, the shared lock and SSH session, the channel ssh_channel_new returned
ChNewSession(parent, n) ==
    [NewSession(parent.ssh) EXCEPT !.channel = "NEW"]
       @@ [ti_lock |-> parent.ti_lock, chan |-> n, host |-> "", port |-> 0,
           username |-> ""]

\* nc_connect_ssh_channel(p, ctx), from the call to the return: it returns the new
\* session in the ring of p, or fails at `failure` and frees the new session; on a
\* parent whose SSH session was freed the call uses freed memory
RgChannel(p, failure) ==
    /\ ~rg.crashed
    /\ RgFresh # {}
    /\ p \in RgAlive
    /\ LET n == CHOOSE s \in RgFresh : \A o \in RgFresh : s <= o
           parent == rg.S[p]
           built == [ChNewSession(parent, n) EXCEPT !.channel = "NETCONF", !.status = "RUNNING",
                                                 !.ctx = "FILLED", !.host = parent.host,
                                                 !.port = parent.port,
                                                 !.username = parent.username]
           half == [rg.S EXCEPT ![n] = ChNewSession(parent, n)]
       IN  \/ /\ parent.ssh \in rg.released
              /\ rg' = [rg EXCEPT !.crashed = TRUE]
           \/ /\ failure = "none"
              /\ rg' = [rg EXCEPT !.S = RingAppend([rg.S EXCEPT ![n] = built], p, n)]
           \/ /\ failure \in ChFailures
              /\ rg' = [rg EXCEPT !.S = FreeSession(half, n),
                                  !.released = IF ReleasesConn(half, n)
                                               THEN @ \cup {parent.ssh} ELSE @,
                                  !.failed = TRUE]
    /\ UNCHANGED otherThanRing

\* nc_session_free(s) by the application
RgFree(s) ==
    /\ ~rg.crashed
    /\ s \in RgAlive
    /\ \/ /\ rg.S[s].ssh \in rg.released
          /\ rg' = [rg EXCEPT !.crashed = TRUE]
       \/ /\ CanFree(rg.S, s)
          /\ rg' = [rg EXCEPT !.S = FreeSession(rg.S, s),
                              !.released = IF ReleasesConn(rg.S, s)
                                           THEN @ \cup {rg.S[s].ssh} ELSE @]
    /\ UNCHANGED otherThanRing

\* the sessions met on the first k steps along next, from s
RECURSIVE RingWalk(_, _, _)
RingWalk(S, s, k) ==
    IF k = 0 \/ s = NULL THEN <<>> ELSE <<s>> \o RingWalk(S, S[s].next, k - 1)

(***************************************************************************)
(* nc_accept_callhome_sock_ssh: the Call Home client was given the socket *)
(* of an accepted connection; it makes an SSH session object for it and    *)
(* hands it to nc_connect_libssh, which runs connect_ssh_session_netconf   *)
(* (the steps above) and the NETCONF handshake.  est.sock is the socket,   *)
(* est.ssh the SSH session object, est.result what the caller got.        *)
(***************************************************************************)
\* where the function can go wrong before it calls nc_connect_libssh
AcceptOutcomes == {"ok", "ssh_new", "getpwuid"}

\* where nc_connect_libssh can go wrong before connect_ssh_session_netconf
LibPrepareOutcomes == {"ok", "calloc", "ti_lock"}

\* where nc_connect_libssh can go wrong after connect_ssh_session_netconf returned 0
LibFinishOutcomes == {"ok", "handshake", "fill"}

\* return NULL; with the socket and the SSH session object as they are
CallhomeNull(e) == [e EXCEPT !.pc = "returned", !.ret = -1, !.result = "NULL"]

\* a failure that gives back the SSH session object and with it the socket
ReleaseAll(e) == [e EXCEPT !.ssh = "freed", !.sock = "closed"]

\* fail: nc_session_free(session); of nc_connect_libssh, for a session that holds
\* the SSH session object: ssh_free closes the socket the object was given
LibFail(e) == ReleaseAll(e)

\* nc_accept_callhome_sock_ssh(sock, host, port, ctx) up to its call of
\* nc_connect_libssh; username tells whether ssh_ch_opts.username is set
AcceptCallhomeSockSsh(outcome, username) ==
    /\ est.pc = "idle" /\ est.sock = "none"
    /\ outcome = "getpwuid" => ~username
    /\ LET given == [est EXCEPT !.sock = "open"]
           made == [given EXCEPT !.ssh = "alloc"]
       IN  est' = CASE outcome = "ssh_new" -> CallhomeNull([given EXCEPT !.sock = "closed"])
                    [] outcome = "getpwuid" -> CallhomeNull(made)
                    [] OTHER -> [made EXCEPT !.pc = "lib"]
    /\ UNCHANGED otherThanEstablish

\* nc_connect_libssh from calloc to the call of connect_ssh_session_netconf: the
\* host and the user are set in the SSH session, which is not connected
ConnectLibsshPrepare(outcome) ==
    /\ est.pc = "lib"
    /\ est' = CASE outcome = "calloc" -> CallhomeNull(est)
                [] outcome = "ti_lock" -> CallhomeNull(est)
                [] OTHER -> [est EXCEPT !.pc = "idle"]
    /\ UNCHANGED otherThanEstablish

\* nc_connect_libssh after connect_ssh_session_netconf returned: goto fail on -1, the
\* NETCONF handshake and the schemas on 0
ConnectLibsshFinish(outcome) ==
    /\ est.pc = "returned" /\ est.sock = "open" /\ est.result = "none"
    /\ est' = IF est.ret # 0 \/ outcome # "ok"
              THEN [LibFail(est) EXCEPT !.result = "NULL"]
              ELSE [est EXCEPT !.result = "session"]
    /\ UNCHANGED otherThanEstablish

(***************************************************************************)
(* The specifications: the connectors with the application's threads, the *)
(* hello exchange, the messages of a session, the framing of a message.   *)
(***************************************************************************)
Init ==
    /\ sess = [s \in SessIds |-> NoSession]
    /\ connReleased = [c \in SessIds |-> 0]
    /\ lockHolder = [c \in SessIds |-> NoThread]
    /\ pc = [t \in Threads |-> "idle"]
    /\ cur = [t \in Threads |-> NULL]
    /\ par = [t \in Threads |-> NULL]
    /\ ptr = [t \in Threads |-> NULL]
    /\ hello = NoHello
    /\ msgid = CallocSession.msgid
    /\ issued = <<>>
    /\ sent = 0
    /\ wire = <<>>
    /\ replies = <<>>
    /\ notifs = <<>>
    /\ got = <<>>
    /\ discarded = {}
    /\ payload = <<>>
    /\ npieces = 0
    /\ framing = NoFraming
    /\ encoded = <<>>
    /\ decoded = NotDecoded
    /\ hk = NoCheck
    /\ ssh_opts = DefaultOpts
    /\ ssh_ch_opts = DefaultChOpts
    /\ nset = 0
    /\ au = NoAuth
    /\ cfg = <<>>
    /\ ser = <<>>
    /\ cfgLock = [k \in Kinds |-> NoThread]
    /\ cpc = [t \in CfgThreads |-> CfgIdle]
    /\ taken = {}
    /\ failed = {}
    /\ acc = NoAccept
    /\ ps = NoPoll
    /\ sid = NoSid
    /\ ctn = NoCtn
    /\ rd = NoRead
    /\ co = NoConnect
    /\ ky = NoKeys
    /\ est = NoEstablish
    /\ rg = NoRing

vars == <<connVars, hello, msgVars, frameVars, hk, authVars, cfgVars, ps, sid, ctn, rd, co, ky, est, rg>>

NextConn ==
    \E t \in Threads :
        \/ SshStart(t) \/ SshHandshake(t) \/ SshFill(t)
        \/ LibNullArg(t) \/ LibStart(t) \/ LibHandshake(t) \/ LibFill(t)
        \/ ChNullArg(t)
        \/ ChStart(t) \/ ChOpen(t) \/ ChHandshake(t) \/ ChFill(t)
        \/ RingTest(t) \/ RingA1(t) \/ RingA2(t) \/ RingB0(t) \/ RingB1(t) \/ RingB2(t)
        \/ IoBegin(t) \/ IoEnd(t) \/ Free(t)

SpecConn == Init /\ [][NextConn]_vars

NextHello ==
    \/ \E c \in SUBSET Caps, s \in SUBSET Caps : HelloExchange(c, s)
    \/ HelloNegotiate

SpecHello == Init /\ [][NextHello]_vars

NextMsg ==
    \/ SendRpc
    \/ \E i \in ReplyIds : ServerReply(i)
    \/ ServerNotif
    \/ \E i \in ReplyIds : RecvReply(i)
    \/ RecvNotif

SpecMsg == Init /\ [][NextMsg]_vars

NextFrame ==
    \/ \E piece \in Pieces : FrameAppend(piece)
    \/ \E f \in Framings : FrameWrite(f)
    \/ FrameRead

SpecFrame == Init /\ [][NextFrame]_vars

NextHostkey ==
    \/ HostkeyCheck
    \/ \E a \in Answers, wr \in BOOLEAN : HostkeyAnswer(a, wr)

SpecHostkey == Init /\ [][NextHostkey]_vars

NextAuth ==
    \/ \E m \in AuthTypes, p \in PrefArgs : SetAuthPref(m, p)
    \/ \E m \in AuthTypes, p \in PrefArgs : ChSetAuthPref(m, p)
    \/ \E k \in SessionKinds, l \in SUBSET AuthTypes, r \in {"SUCCESS", "DENIED", "ERROR"} :
           AuthStart(k, l, r)
    \/ \E r \in {"SUCCESS", "DENIED"} : AuthRound(r)
    \/ \E f \in {"none", "open", "subsystem"} : AuthChannel(f)

SpecAuth == Init /\ [][NextAuth]_vars

NextCfg ==
    \/ CfgSetup
    \/ \E t \in CfgThreads, o \in TestOps : CfgBegin(t, o)
    \/ \E t \in CfgThreads : CfgEnd(t)
    \/ AcceptBuild
    \/ \E k \in Kinds : AcceptConn(k)

SpecCfg == Init /\ [][NextCfg]_vars

NextPoll ==
    \/ \E s \in PollSessions, k \in MsgKinds : PsArrive(s, k)
    \/ \E t \in PollThreads :
          \/ PollBegin(t) \/ PollIdle(t) \/ PollDispatch(t) \/ PollReply(t) \/ PollOther(t)

SpecPoll == Init /\ [][NextPoll]_vars

NextSid ==
    \E t \in AcceptThreads :
        \/ SidAccept(t) \/ SidLock(t) \/ SidRead(t) \/ SidAssign(t)
        \/ \E ok \in BOOLEAN : SidHello(t, ok)

SpecSid == Init /\ [][NextSid]_vars

NextCtn ==
    \/ \E e \in CtnEntries : CtnAdd(e)
    \/ \E cert \in ClientCerts : CtnVerify(cert)

SpecCtn == Init /\ [][NextCtn]_vars

NextRead ==
    \/ \E timeout \in ReadTimeouts, st \in {"STARTING", "RUNNING"} : ReadCall(timeout, st)
    \/ \E w \in WireStates : WireArrive(w)
    \/ ReadProbe
    \/ ReadSleep

SpecRead == Init /\ [][NextRead]_vars

NextConnect ==
    \/ \E h \in HostArgs, p \in PortArgs, o \in OptUsernames, w \in PwNames :
          ConnectCall(h, p, o, w)
    \/ \E ok \in BOOLEAN : ConnectFinish(ok)

SpecConnect == Init /\ [][NextConnect]_vars

NextKeys ==
    \/ \E k \in SessionKinds, pub \in PubKeys \cup {"NULL"}, priv \in PrivKeys \cup {"NULL"},
          file \in KeyFiles : AddKeypair(k, pub, priv, file)
    \/ \E k \in SessionKinds, idx \in KeyIdx : DelKeypair(k, idx)
    \/ \E k \in SessionKinds, idx \in KeyIdx, wpub \in BOOLEAN, wpriv \in BOOLEAN :
          GetKeypair(k, idx, wpub, wpriv)
    \/ ClientSshDestroy

SpecKeys == Init /\ [][NextKeys]_vars

NextEstablish ==
    \/ \E ok \in BOOLEAN, n \in 0..MaxEstKeys : EstConnect(ok, n)
    \/ \E ret \in {0, -1} : EstHostkey(ret)
    \/ \E r \in AuthResults, l \in SUBSET AuthTypes : EstAuthNone(r, l)
    \/ \E r \in AuthResults : EstRound(r)
    \/ \E o \in KeyOutcomes : EstKey(o)
    \/ \E ok \in BOOLEAN : EstOpen(ok)
    \/ \E ok \in BOOLEAN : EstSubsystem(ok)

SpecEstablish == Init /\ [][NextEstablish]_vars

NextRing ==
    \/ \E h \in RingHosts, p \in RingPorts, u \in RingUsers : RgConnect(h, p, u)
    \/ \E p \in RingIds, f \in ChFailures \cup {"none"} : RgChannel(p, f)
    \/ \E s \in RingIds : RgFree(s)

SpecRing == Init /\ [][NextRing]_vars

NextCallhome ==
    \/ \E o \in AcceptOutcomes, u \in BOOLEAN : AcceptCallhomeSockSsh(o, u)
    \/ \E o \in LibPrepareOutcomes : ConnectLibsshPrepare(o)
    \/ \E o \in LibFinishOutcomes : ConnectLibsshFinish(o)
    \/ \E ok \in BOOLEAN, n \in 0..MaxEstKeys : EstConnect(ok, n)
    \/ \E ret \in {0, -1} : EstHostkey(ret)
    \/ \E r \in AuthResults, l \in SUBSET AuthTypes : EstAuthNone(r, l)
    \/ \E r \in AuthResults : EstRound(r)
    \/ \E o \in KeyOutcomes : EstKey(o)
    \/ \E ok \in BOOLEAN : EstOpen(ok)
    \/ \E ok \in BOOLEAN : EstSubsystem(ok)

SpecCallhome == Init /\ [][NextCallhome]_vars

(***************************************************************************)
(* Properties.                                                             *)
(***************************************************************************)
\* positions at which a thread reads or writes the transport of cur[t]
IoPcs == {"io", "ch_open", "ch_hs"}

DoingIo(t, c) == pc[t] \in IoPcs /\ sess[cur[t]].ssh = c

\* C1: at most one thread at a time does transport I/O on an SSH connection, whichever
\* of the sessions on it the threads use, and a thread that opens a channel or runs
\* the hello exchange in nc_connect_ssh_channel holds the lock of the connection.
PerSessionSerialization ==
    \A c \in SessIds :
        /\ \A t1, t2 \in Threads : DoingIo(t1, c) /\ DoingIo(t2, c) => t1 = t2
        /\ \A t \in Threads :
              pc[t] \in {"ch_open", "ch_hs"} /\ sess[cur[t]].ssh = c => lockHolder[c] = t

StrictlyIncreasing(q) == \A i, j \in DOMAIN q : i < j => q[i] < q[j]

BothHave(cap) == cap \in hello.client /\ cap \in hello.server

\* C3: once the hellos are exchanged and looked at, the session runs v1.1 exactly when
\* both lists hold base:1.1, runs v1.0 exactly when they do not but both hold base:1.0,
\* and in every other case the handshake has failed and the session is not running.
VersionNegotiation ==
    hello.phase \in {"done", "failed"} =>
        /\ (hello.status = "RUNNING" /\ hello.version = "V11") <=> BothHave("base11")
        /\ (hello.status = "RUNNING" /\ hello.version = "V10")
               <=> (~BothHave("base11") /\ BothHave("base10"))
        /\ (hello.phase = "failed" /\ hello.status # "RUNNING")
               <=> (~BothHave("base11") /\ ~BothHave("base10"))

\* a handshake that chose v1.0 although one side offered v1.1 as well
ChoseV10 ==
    /\ hello.phase = "done"
    /\ hello.version = "V10"
    /\ "base11" \in hello.client \cup hello.server

Delivered == {got[k].msg : k \in DOMAIN got}

\* C4: every receive for a message-id returned the reply that carries this message-id;
\* a reply to no RPC of the session is dropped when it is read: it is on no queue and
\* no caller got it.
ReplyCorrelation ==
    /\ \A k \in DOMAIN got :
          got[k].want # WantNotif =>
              /\ got[k].msg.kind = "reply"
              /\ got[k].msg.id = got[k].want
              /\ got[k].want \in Range(issued)
    /\ \A m \in Range(replies) : m.id \in Range(issued)
    /\ \A m \in discarded : m.kind = "reply" /\ m \notin Delivered /\ m \notin Range(replies)

\* two replies were returned, the one that arrived later first, and a reply was dropped
RepliesOutOfOrder ==
    /\ discarded # {}
    /\ \E i, j \in DOMAIN got :
          /\ i < j
          /\ got[i].msg.kind = "reply"
          /\ got[j].msg.kind = "reply"
          /\ got[i].msg.ser > got[j].msg.ser

InArrivalOrder(q) == \A i, j \in DOMAIN q : i < j => q[i].ser < q[j].ser

Read == framing # NoFraming /\ decoded # NotDecoded

\* C6 (as amended): a body that neither holds the marker ]]>]]> nor ends in ]]> is
\* read back from its v1.0 framing as it was written, and a body of at least one byte
\* is read back from its v1.1 framing as it was written, for each of the chunk sizes.
FramingRoundTrip ==
    Read =>
        /\ (/\ framing.version = "V10"
            /\ ~Contains(payload, NC_VERSION_10_ENDTAG)
            /\ ~EndsWith(payload, <<"]", "]", ">">>))
               => decoded = [ok |-> TRUE, data |-> payload]
        /\ (framing.version = "V11" /\ payload # <<>>)
               => decoded = [ok |-> TRUE, data |-> payload]

\* C6 (as stated): a body that does not hold the marker ]]>]]> is read back from its
\* v1.0 framing as it was written, and any body is read back from its v1.1 framing as
\* it was written, for each of the chunk sizes.
FramingRoundTripAnyBody ==
    Read =>
        /\ (framing.version = "V10" /\ ~Contains(payload, NC_VERSION_10_ENDTAG))
               => decoded = [ok |-> TRUE, data |-> payload]
        /\ framing.version = "V11" => decoded = [ok |-> TRUE, data |-> payload]

\* a body of more bytes than a chunk of 16 takes, with ]]> in it, was read back
LongBodyRead ==
    /\ Read
    /\ framing = [version |-> "V11", chunk |-> 16]
    /\ Len(payload) > 16
    /\ Contains(payload, <<"]", "]", ">">>)
    /\ decoded.data = payload

AliveOn(c) == {s \in SessIds : sess[s].mem = "alive" /\ sess[s].ssh = c}

\* C7: the SSH session and the lock of a connection are released once at most, and
\* when they are released no session is left on the connection.
ConnReleasedOnceByLast ==
    \A c \in SessIds :
        /\ connReleased[c] <= 1
        /\ connReleased[c] > 0 => AliveOn(c) = {}

\* C8: a running session has an SSH session, a channel that runs the netconf subsystem
\* and the version and capabilities the handshake left.
RunningHasTransport ==
    \A s \in SessIds :
        (sess[s].mem = "alive" /\ sess[s].status = "RUNNING") =>
            /\ sess[s].ssh # NULL
            /\ sess[s].channel = "NETCONF"
            /\ sess[s].version \in NC_VERSION
            /\ sess[s].cpblts # <<>>

Alive(s) == sess[s].mem = "alive"

\* C9: no step moves the status of a session back in the order starting, running,
\* closing, invalid, and a session with a termination reason is invalid.
StatusMonotonic ==
    /\ [][\A s \in SessIds :
             (Alive(s) /\ sess'[s].mem = "alive") =>
                 StatusRank(sess'[s].status) >= StatusRank(sess[s].status)]_vars
    /\ [](\A s \in SessIds :
             (Alive(s) /\ sess[s].term_reason # "NONE") => sess[s].status = "INVALID")

\* a session that ran has become invalid, with a termination reason
WentInvalid ==
    \E s \in SessIds :
        /\ Alive(s)
        /\ sess[s].status = "INVALID"
        /\ sess[s].term_reason = "DROPPED"
        /\ sess[s].ctx = "FILLED"

\* C10 (as amended): the status is set to running after the hello exchange and before
\* the schema context is populated; a session a connector has returned has a populated
\* context, and one whose population failed is never returned.
ReturnedSessionIsFilled ==
    \A s \in SessIds :
        /\ (Alive(s) /\ sess[s].status = "RUNNING") => sess[s].cpblts # <<>>
        /\ Returned(s) => (sess[s].status \in {"RUNNING", "INVALID"} /\ sess[s].ctx = "FILLED")
        /\ (Alive(s) /\ sess[s].ctx = "FILLED") => sess[s].status \in {"RUNNING", "INVALID"}

\* C10 (as stated): a session is running only with a populated schema context.
RunningOnlyAfterFill ==
    \A s \in SessIds :
        (Alive(s) /\ sess[s].status = "RUNNING") => sess[s].ctx = "FILLED"

\* a session was returned running and filled while another one, running already,
\* waits for its context to be populated
FillPendingWhileRunning ==
    /\ \E s \in SessIds : Returned(s) /\ sess[s].status = "RUNNING" /\ sess[s].ctx = "FILLED"
    /\ \E t \in Threads :
          /\ pc[t] \in {"ssh_fill", "lib_fill", "ch_fill"}
          /\ sess[cur[t]].status = "RUNNING"
          /\ sess[cur[t]].ctx = "SET"

\* C11: a connector that returns has either freed the session it was building or
\* hands out a running client session; no session that is not under construction is
\* starting; and a call with a NULL argument leaves the sessions as they are.
ConnectOutcomes ==
    /\ [][\A t \in Threads :
             (pc[t] \in BuildPcs /\ pc'[t] = "idle") =>
                 \/ sess'[cur[t]].mem = "freed"
                 \/ /\ sess'[cur[t]].mem = "alive"
                    /\ sess'[cur[t]].status = "RUNNING"
                    /\ sess'[cur[t]].side = "CLIENT"]_vars
    /\ [](\A s \in SessIds :
             (Alive(s) /\ sess[s].status = "STARTING") => UnderConstruction(s))
    /\ [](AfterArgError(sess) = sess)

\* one call has returned a running client session, one has failed and freed its
\* session, and one is building a session
AllOutcomes ==
    /\ \E s \in SessIds : Returned(s) /\ sess[s].status = "RUNNING" /\ sess[s].side = "CLIENT"
    /\ \E s \in SessIds : sess[s].mem = "freed"
    /\ \E s \in SessIds : UnderConstruction(s) /\ sess[s].status = "STARTING"

\* C12: the session nc_connect_libssh runs the hello handshake on, and the one it
\* populates and returns, has a channel with the netconf subsystem on its SSH session,
\* whether the SSH session it was given was connected or not.
LibsshOpensChannel ==
    \A t \in Threads :
        pc[t] \in {"lib_hs", "lib_fill"} =>
            /\ sess[cur[t]].ssh # NULL
            /\ sess[cur[t]].channel = "NETCONF"

\* the last answer the user gave
LastAnswer == hk.answers[Len(hk.answers)]

\* C13 as stated: with an unknown host key and no DNSSEC the check fails, no
\* authentication is attempted and the connect fails, whatever the user
\* answers to the prompt.
RefusesUnknownHostKey ==
    (hk.state \in HostkeyNotKnown /\ ~hk.dnssec /\ hk.returned) =>
        hk.result # 0 /\ hk.pc = "failed"

\* C13: with an unknown host key and no DNSSEC the user is prompted, and the
\* connection is refused (the check fails, no authentication is attempted,
\* the connect fails) unless the user answers yes: on no or on end of input
\* it is refused, on yes the key is written to known-hosts and the check
\* passes, on any other word the user is asked again.
RefusesUnlessYes ==
    (hk.state \in HostkeyNotKnown /\ ~hk.dnssec /\ hk.prompted) =>
        /\ ~hk.looked
        /\ \A i \in 1..(Len(hk.answers) - 1) : hk.answers[i] = "other"
        /\ hk.returned <=> (hk.answers # <<>> /\ LastAnswer # "other")
        /\ hk.returned =>
              /\ (hk.result = 0) <=> (LastAnswer = "yes")
              /\ (hk.result # 0) <=> (LastAnswer \in {"no", "EOF"})
              /\ (hk.pc = "auth") <=> (hk.result = 0)
              /\ (hk.pc = "failed") <=> (hk.result # 0)
              /\ hk.writes = IF LastAnswer = "yes" THEN 1 ELSE 0
        /\ ~hk.returned => hk.pc = "prompt" /\ hk.writes = 0

\* an unknown key without DNSSEC was refused at the end of the input, after
\* an answer that was neither yes nor no
RefusedAfterPrompt ==
    /\ hk.state = "NOT_KNOWN" /\ ~hk.dnssec
    /\ hk.answers = <<"other", "EOF">>
    /\ hk.pc = "failed"

\* C14: when the host key is not in known-hosts and the DNSSEC lookup of
\* its SSHFP record gives 0 (secure match), the check returns success
\* without a prompt, having called ssh_write_knownhost exactly once.
DnssecMatchAccepts ==
    (hk.state \in HostkeyNotKnown /\ hk.looked /\ hk.ret = 0 /\ hk.answers = <<>>) =>
        /\ hk.returned /\ hk.result = 0 /\ hk.pc = "auth"
        /\ ~hk.prompted
        /\ hk.writes = 1

\* an unknown ECDSA key was accepted on its SSHFP record
AcceptedOnSshfp ==
    /\ hk.state = "NOT_KNOWN" /\ hk.keytype = "ECDSA"
    /\ hk.looked /\ hk.ret = 0
    /\ hk.returned /\ hk.result = 0 /\ hk.writes = 1 /\ hk.stored

\* the order the claim gives the methods: descending preference, and on equal
\* preferences keyboard-interactive before password before publickey
AuthRank == [INTERACTIVE |-> 1, PASSWORD |-> 2, PUBLICKEY |-> 3]
Before(prefs, m, n) ==
    prefs[m] > prefs[n] \/ (prefs[m] = prefs[n] /\ AuthRank[m] <= AuthRank[n])
RECURSIVE Ranked(_, _)
Ranked(prefs, M) ==
    IF M = {} THEN <<>>
    ELSE LET b == CHOOSE m \in M : \A n \in M : Before(prefs, m, n)
         IN  <<b>> \o Ranked(prefs, M \ {b})
IsPrefix(p, q) == Len(p) <= Len(q) /\ SubSeq(q, 1, Len(p)) = p
\* the methods the server offers and the block has not disabled
Usable(prefs, offered) == {m \in offered : prefs[m] >= 0}

\* C15 as stated: a normal session tries the offered methods that are not
\* disabled in descending order of preference (ties: keyboard-interactive,
\* password, publickey), and it has tried every one of them when it gives up
\* with no supported authentication methods left.
RankedAttempts ==
    (au.kind = "normal" /\ au.ret_auth # "ERROR") =>
        LET want == Ranked(ssh_opts.auth_pref, Usable(ssh_opts.auth_pref, au.offered))
        IN  /\ IsPrefix(au.tried, want)
            /\ au.gaveup => au.tried = want

\* the sequence of methods the loop tries when every attempt is denied
RECURSIVE Attempts(_, _)
Attempts(prefs, list) ==
    LET auth == SelectAuth(prefs, list)
    IN  IF auth = "NONE" THEN <<>> ELSE <<auth>> \o Attempts(prefs, list \ {auth})
\* the block of options of a kind of session
BlockOf(kind) == IF kind = "callhome" THEN ssh_ch_opts ELSE ssh_opts

\* C16 as stated: a session of either kind tries the methods that the
\* preferences of its own block of options select: a Call Home session
\* those of ssh_ch_opts, a normal session those of ssh_opts.
OwnBlockDecides ==
    (au.kind \in SessionKinds /\ au.ret_auth # "ERROR") =>
        LET prefs == BlockOf(au.kind).auth_pref
            want == Attempts(prefs, RemoveDisabled(prefs, au.offered))
        IN  /\ IsPrefix(au.tried, want)
            /\ au.gaveup => au.tried = want

\* the operations that have returned
CfgDone == taken \ {cpc[t].op : t \in CfgThreads}

PollDiscipline ==
    /\ \A t \in PollThreads : ps.thr[t].nd <= 1
    /\ \A s \in PollSessions : ps.dispatched[s] - ps.replied[s] \in {0, 1}
    /\ \A t \in PollThreads :
          ps.thr[t].pc # "idle" =>
              \A e \in 1..(ps.thr[t].e - 1) :
                  ps.arrived[e].s \in PollSets[t] => e \in ps.served

\* both threads have served an RPC of session 2, the one they share, and the
\* second reply is about to be written
SharedSessionServedTwice ==
    /\ ps.replied[2] = 1
    /\ ps.thr["p1"].pc = "reply" /\ ps.arrived[ps.thr["p1"].e].s = 2
    /\ ps.thr["p2"].ret = "rpc-dispatched" /\ ps.arrived[ps.thr["p2"].e].s = 2
    /\ \E e \in DOMAIN ps.arrived : ps.arrived[e].s = 1 /\ e \in ps.served

\* C22: session ids.  The id of every session the server has given one is not zero,
\* no two sessions of the server have the same id, whichever threads accepted them,
\* the id of a session is written once at most, and exactly once, before its hello,
\* in a session that was returned.
SessionIdsUnique ==
    /\ \A s \in DOMAIN sid.sessions :
          /\ sid.sessions[s].writes <= 1
          /\ sid.sessions[s].writes = 1 => sid.sessions[s].id # 0
          /\ sid.sessions[s].status # "STARTING" => sid.sessions[s].writes = 1
    /\ \A s, o \in DOMAIN sid.sessions :
          (s # o /\ sid.sessions[s].writes = 1 /\ sid.sessions[o].writes = 1)
              => sid.sessions[s].id # sid.sessions[o].id

\* two threads were in nc_accept at the same time and both their sessions run,
\* while a third session is being given its id
AcceptedConcurrently ==
    /\ Len(sid.sessions) = MaxAccepts
    /\ sid.sessions[1].status = "RUNNING" /\ sid.sessions[2].status = "RUNNING"
    /\ sid.sessions[2].id < sid.sessions[1].id
    /\ \E t \in AcceptThreads : sid.thr[t].pc = "incr"

\* the entries of the table whose rule matches the certificate presented
MatchingCtn == {i \in DOMAIN ctn.table : CtnMatches(ctn.table[i], ctn.cert)}

ReadTimeoutSemantics ==
    rd.pc = "returned" =>
        /\ rd.ret \in NC_MSG_TYPE \ {"NC_MSG_NONE"}
        /\ rd.timeout = 0 => rd.elapsed = 0
        /\ rd.timeout > 0 =>
              (rd.ret = "NC_MSG_WOULDBLOCK" <=> (rd.elapsed >= rd.timeout /\ ~rd.seen))
        /\ rd.timeout < 0 => rd.ret # "NC_MSG_WOULDBLOCK"
        /\ rd.ret = "NC_MSG_WOULDBLOCK" => rd.status = rd.status0

\* a call with a positive timeout waited it out on a silent wire
WaitedInVain ==
    /\ rd.pc = "returned" /\ rd.ret = "NC_MSG_WOULDBLOCK"
    /\ rd.timeout = MaxWait /\ rd.elapsed = MaxWait /\ rd.status = "STARTING"

\* C25: connect defaults.  Whenever nc_connect_ssh has connected a socket, it
\* connected to port 830 if it was called with port 0 and to the port it was called
\* with otherwise, and to localhost if it was called with a NULL or empty host and
\* to the host it was called with otherwise; and a session it returned has the host
\* and the port it connected to and the username it gave to the SSH session.
ConnectDefaults ==
    /\ co.dialled # NoPeer =>
          /\ co.dialled.port = (IF co.port = 0 THEN 830 ELSE co.port)
          /\ co.dialled.host = (IF co.host \in {"NULL", ""} THEN "localhost" ELSE co.host)
          /\ co.ssh.host = co.dialled.host /\ co.ssh.port = co.dialled.port
    /\ co.ret = "session" =>
          /\ co.dialled # NoPeer
          /\ co.session.host = co.dialled.host
          /\ co.session.port = co.dialled.port
          /\ co.session.username = co.ssh.username
          /\ co.session.username # "NULL"

\* a session was returned by a call with an empty host and port 0
ConnectedByDefault ==
    /\ co.ret = "session" /\ co.host = "" /\ co.port = 0
    /\ co.session = [host |-> "localhost", port |-> 830, username |-> "root"]

\* C26: destroy is idempotent.  Whatever key pairs were added and deleted before,
\* a call of nc_client_ssh_destroy returns, and leaves the normal block without key
\* pairs; called after a destroy, or on a block that never had key pairs, it changes
\* nothing; and the add of a key pair that follows it puts the pair into the block.
DestroyIdempotent ==
    /\ ky.call.fn = "destroy" =>
          /\ ~ky.crashed
          /\ ky.opts["normal"] = NoKeyBlock
          /\ ky.before["normal"] = NoKeyBlock => ky.opts = ky.before
    /\ (/\ ky.call.fn = "add" /\ ky.call.block = "normal" /\ ky.call.ret = 0
        /\ ky.before["normal"] = NoKeyBlock)
          => (~ky.crashed /\ ky.opts["normal"].key_count = 1
                /\ Len(ky.opts["normal"].keys) = 1)

\* C27: ordering of the SSH session establishment.  connect_ssh_session_netconf has
\* returned 0 only with the transport connected, the host key check passed, the
\* user authenticated and the channel open with the netconf subsystem; the host key
\* check is made on a connected transport; no authentication is asked for before
\* the host key check passed; there is no channel unless the user is authenticated;
\* and after a return of -1 the channel of the session is NULL.
EstablishOrder ==
    /\ est.ret = 0 =>
          est.connected /\ est.hostkey /\ est.authenticated /\ est.channel = "NETCONF"
    /\ est.hostkey => est.connected
    /\ est.attempts > 0 => est.hostkey
    /\ est.channel # "NULL" => est.authenticated
    /\ est.ret = -1 => est.channel = "NULL"

\* C28: sibling ring well-formedness.  As long as no nc_connect_ssh_channel has failed
\* in a client that makes its calls one after the other, the sessions that share one
\* SSH session form one cycle: the walk along next from any of them meets every one
\* of them exactly once and is back at the start after as many steps as there are
\* members; a session without a sibling has next NULL; all of them hold the same
\* lock, pairwise different channels (each has the channel it made itself, open with
\* the netconf subsystem) and the host, port and username of the session the
\* connection was made with.
SiblingRingWellFormed ==
    ~rg.failed =>
       \A s \in RgAlive :
          LET M == RgOn(rg.S[s].ssh)
              k == Cardinality(M)
              w == RingWalk(rg.S, s, k + 1)
          IN  /\ ~rg.crashed /\ rg.S[s].ssh \notin rg.released
              /\ (k = 1) = (rg.S[s].next = NULL)
              /\ k > 1 => /\ Len(w) = k + 1
                          /\ w[k + 1] = s
                          /\ {w[i] : i \in 1..k} = M
              /\ rg.S[s].channel = "NETCONF"
              /\ \A o \in M : /\ rg.S[o].ti_lock = rg.S[s].ti_lock
                              /\ o # s => rg.S[o].chan # rg.S[s].chan
                              /\ rg.S[o].host = rg.S[s].host
                              /\ rg.S[o].port = rg.S[s].port
                              /\ rg.S[o].username = rg.S[s].username
              /\ rg.S[s].host \in RingHosts /\ rg.S[s].port \in RingPorts
              /\ rg.S[s].username \in RingUsers
              /\ \A o \in RgAlive : rg.S[o].ti_lock = rg.S[s].ti_lock => o \in M

\* three sessions on one SSH session, the third made on a session that already had
\* a sibling, and no call has failed
RingOfThree ==
    /\ ~rg.failed
    /\ \E s \in RgAlive : Cardinality(RgOn(rg.S[s].ssh)) = 3

\* C29: nc_connect_ssh_channel leaves the shared lock released on every return path.
\* Whenever a thread returns from nc_connect_ssh_channel, with a session or from the
\* fail label, it holds the lock of no SSH connection.
ChannelCallReleasesLock ==
    [][\A t \in Threads :
          (pc[t] \in {"ch_open", "ch_hs", "ch_fill", "ring_a2", "ring_b2"} /\ pc'[t] = "idle")
             => \A c \in DOMAIN lockHolder' : lockHolder'[c] # t]_vars

\* C30: a failed nc_connect_ssh_channel leaves the parent untouched.  When a call
\* leaves through the fail label, the parent session is as it was at the step before,
\* and no SSH session and no lock has been released: the half-built session that is
\* freed is not the last holder of the connection it shares.
ChannelFailureFrame ==
    [][\A t \in Threads :
          (/\ pc[t] \in {"ch_open", "ch_hs", "ch_fill"}
           /\ pc'[t] = "idle")
             => /\ sess'[par[t]] = sess[par[t]]
                /\ connReleased' = connReleased]_vars

\* C31: concurrent channel creation keeps the ring intact.  When no call is in
\* progress, the returned sessions of every SSH connection that was not released form
\* one cycle: the walk along next from any of them, as many steps as there are
\* members, meets every member and is back at the start; a session alone on its
\* connection has next NULL.
ConcurrentRingIntact ==
    (\A t \in Threads : pc[t] = "idle") =>
       \A s \in SessIds :
          (Returned(s) /\ sess[s].ssh # NULL /\ connReleased[sess[s].ssh] = 0) =>
             LET M == {o \in SessIds : Returned(o) /\ sess[o].ssh = sess[s].ssh}
                 k == Cardinality(M)
                 w == RingWalk(sess, s, k + 1)
             IN  /\ (k = 1) = (sess[s].next = NULL)
                 /\ k > 1 => /\ Len(w) = k + 1
                             /\ w[k + 1] = s
                             /\ {w[i] : i \in 1..k} = M

\* C32: an unknown host key is never accepted silently.  When the host key is not in
\* known-hosts and the check has returned success, then either the SSHFP records
\* were looked up for the key and the lookup gave 0 (a DNSSEC-secured match), with
\* no prompt, or the last answer of the user was yes; this for every key type.  And
\* the check that ended on the answer no or on the end of the input has failed.
UnknownKeyNeverSilent ==
    (hk.state \in HostkeyNotKnown /\ hk.returned) =>
        /\ hk.result = 0 =>
              \/ hk.looked /\ hk.ret = 0 /\ hk.answers = <<>>
              \/ hk.answers # <<>> /\ LastAnswer = "yes"
        /\ (hk.answers # <<>> /\ LastAnswer \in {"no", "EOF"}) =>
              hk.result # 0 /\ hk.pc = "failed"

\* C33: a changed host key always terminates the connection.  When known-hosts
\* holds another key for the host, or the look into known-hosts gave an error, the
\* check has failed as soon as it was made: no SSHFP lookup, no prompt, no write to
\* known-hosts, and connect_ssh_session_netconf fails before any authentication.
ChangedKeyTerminates ==
    (hk.state \in {"KNOWN_CHANGED", "ERROR"} /\ hk.pc # "idle") =>
        /\ hk.returned /\ hk.result # 0 /\ hk.pc = "failed"
        /\ ~hk.looked /\ ~hk.prompted /\ hk.answers = <<>>
        /\ hk.writes = 0 /\ ~hk.stored

\* a changed key was refused in a build with DNSSEC, for a key type that has SSHFP
\* records
ChangedKeyRefused ==
    /\ hk.state = "KNOWN_CHANGED" /\ hk.dnssec /\ hk.keytype = "RSA"
    /\ hk.pc = "failed"

\* C34: the loop over the authentication methods terminates.  In one call of
\* connect_ssh_session_netconf a method is chosen in at most three rounds, each of
\* the three methods in at most one of them, so a method that failed is not tried
\* again; the loop is left either because the user is authenticated, and then the
\* channel is made, or because no method is left, and then the call returns -1.
AuthLoopTerminates ==
    /\ Len(est.tried) <= NC_SSH_AUTH_COUNT
    /\ \A i, k \in 1..Len(est.tried) : est.tried[i] = est.tried[k] => i = k
    /\ \A i \in 1..Len(est.tried) : est.tried[i] \notin est.userauthlist
    /\ est.loop = "success" => est.authenticated
    /\ est.loop = "exhausted" =>
          /\ ~est.authenticated /\ est.ret = -1
          /\ SelectAuth(ssh_opts.auth_pref, est.userauthlist) = "NONE"

\* C35: a disabled authentication method is never attempted.  A session of either
\* kind tries no method that has a negative preference in the block of options of
\* its kind; and when every method the server offers is disabled there, nothing is
\* tried and, unless the none request has authenticated the user, the connect fails
\* with no method left.
DisabledNeverAttempted ==
    (au.kind \in SessionKinds /\ au.ret_auth # "ERROR") =>
        LET prefs == BlockOf(au.kind).auth_pref
        IN  /\ \A i \in 1..Len(au.tried) : ~(prefs[au.tried[i]] < 0)
            /\ (\A m \in au.offered : prefs[m] < 0) =>
                  /\ au.tried = <<>>
                  /\ au.ret_auth # "SUCCESS" =>
                        /\ au.pc \in {"loop", "failed"}
                        /\ au.pc = "failed" => au.gaveup

\* the block the last call worked on, after and before the call
KeyNow == ky.opts[ky.call.block]
KeyWas == ky.before[ky.call.block]

\* C36: add_keypair is all-or-nothing.  An add that has returned -1 has left the
\* list and the count of its block as they were; an add that has returned 0 has
\* made the count one more, the list one longer with the old pairs in their places,
\* and the pair at count - 1, which get_keypair gives, is the one added.
AddAllOrNothing ==
    (ky.call.fn = "add" /\ ~ky.crashed /\ ky.was = "ok") =>
        /\ ky.call.ret = -1 => KeyNow = KeyWas
        /\ ky.call.ret = 0 =>
              /\ KeyNow.key_count = KeyWas.key_count + 1
              /\ Len(KeyNow.keys) = KeyNow.key_count
              /\ SubSeq(KeyNow.keys, 1, KeyWas.key_count) = KeyWas.keys
              /\ KeyNow.keys[KeyNow.key_count].pubkey_path = ky.call.pub
              /\ KeyNow.keys[KeyNow.key_count].privkey_path = ky.call.priv

\* the last call was del_keypair or get_keypair with an idx that is no index of the
\* list it was given
IdxOutOfRange ==
    /\ ky.call.fn \in {"del", "get"}
    /\ ky.was = "ok"
    /\ ky.call.idx < 0 \/ ky.call.idx >= KeyWas.key_count

\* C37: key-pair index checking.  A del_keypair or get_keypair with an idx that is
\* negative, or equal to or greater than the count, has returned -1, has read and
\* written no element (the process lives, the heap is sound, get has stored
\* nothing) and has left the list and the count as they were.
KeyIdxChecked ==
    IdxOutOfRange =>
        /\ ~ky.crashed
        /\ ky.call.ret = -1
        /\ ky.heap = "ok"
        /\ ky.call.pub = "NULL" /\ ky.call.priv = "NULL"
        /\ ky.opts = ky.before

\* how often the pair p is in a list
PairCount(keys, p) == Cardinality({i \in 1..Len(keys) : keys[i] = p})

NoDuplicateKeypairs ==
    /\ \A k \in SessionKinds :
          LET b == ky.opts[k]
          IN  /\ b.key_count = Len(b.keys)
              /\ \A i, j \in 1..Len(b.keys) :
                    (/\ b.keys[i].pubkey_path = b.keys[j].pubkey_path
                     /\ b.keys[i].privkey_path = b.keys[j].privkey_path) => i = j
    /\ (ky.call.fn = "add" /\ ~ky.crashed /\ ky.call.pub # "NULL" /\ ky.call.priv # "NULL") =>
          LET had == \E i \in 1..Len(KeyWas.keys) :
                        /\ KeyWas.keys[i].pubkey_path = ky.call.pub
                        /\ KeyWas.keys[i].privkey_path = ky.call.priv
          IN  /\ had => (ky.call.ret = -1 /\ KeyNow = KeyWas)
              /\ ~had => /\ KeyNow.key_count = KeyWas.key_count + 1
                         /\ KeyNow.keys[Len(KeyNow.keys)].pubkey_path = ky.call.pub
                         /\ KeyNow.keys[Len(KeyNow.keys)].privkey_path = ky.call.priv

\* C40: the Call Home accept releases what it was given on failure.  Whenever
\* nc_accept_callhome_sock_ssh has returned NULL, the accepted socket is closed and
\* the SSH session object, if one was made for it, is freed.
CallhomeReleasesOnFailure ==
    est.result = "NULL" =>
        /\ est.sock = "closed"
        /\ est.ssh \in {"none", "freed"}

=============================================================================
